---- MODULE Spec2Model ----
(***************************************************************************)
(* A model of the leafbridge-deploy engine: the flow orchestrator          *)
(* (lbengine/flow.go), the action dispatcher (lbengine action engine),     *)
(* the lock manager with its reentrant lockers, and the download-and-      *)
(* verify step of the package pipeline.                                    *)
(***************************************************************************)
EXTENDS Integers, Sequences, FiniteSets, TLC

(***************************************************************************)
(* Bounds of the model.                                                    *)
(***************************************************************************)
MaxActions == 2
MaxLocks == 2
MaxPre == 1
MaxCalls == 6
MaxSize == 2
MaxSources == 2
MaxApps == 1
MaxVersionLen == 3
MaxOrderedLen == 2
MaxInputLen == 2
chunkSize == 2
MaxBuffer == 3
MaxHandlers == 3
MaxFlowPre == 2
MaxChildren == 2
MaxEntries == 3
MaxGroup == 3

(***************************************************************************)
(* Generic helpers.                                                        *)
(***************************************************************************)
SeqsUpTo(S, n) == UNION {[1..k -> S] : k \in 0..n}

Last(s) == s[Len(s)]

(***************************************************************************)
(* Errors.  Every error value is a record of one shape; Nil is Go's nil.   *)
(* CtxErr is the value ctx.Err() returns once the context is cancelled     *)
(* (a singleton, compared by identity in flow.go:325).                     *)
(***************************************************************************)
Err(kind, of) == [kind |-> kind, of |-> of]

Nil == Err("nil", <<>>)

CtxErr == Err("context canceled", <<>>)

\* fmt.Errorf("...: %w", err): a new error value that wraps err.
Wrap(kind, e) == Err(kind, <<e>>)

\* errors.Join: nil when there is no error to join, else one error that
\* wraps them all.
JoinErrs(errs) == IF Len(errs) = 0 THEN Nil ELSE Err("join", errs)

(***************************************************************************)
(* lbdeploy.Behavior                                                       *)
(***************************************************************************)
OnErrorUnspecified == ""
OnErrorStop == "stop"
OnErrorContinue == "continue"
OnErrorValues == {OnErrorUnspecified, OnErrorStop, OnErrorContinue}

\* OverlayBehavior(deployment.Behavior, flow.Behavior): later members win
\* when they are specified.
OverlayBehavior(base, over) == IF over # OnErrorUnspecified THEN over ELSE base

(***************************************************************************)
(* internal/reentrantlock.Mutex wrapped around an OS mutex.  A locker is   *)
(* [counter, held]: the reentry counter and whether this process owns the  *)
(* underlying OS mutex.  osFree tells whether the OS mutex can be taken    *)
(* right now (no other process owns it).  The ghost fields acquired and    *)
(* released count the calls made on the underlying mutex.                  *)
(***************************************************************************)
NewLocker == [counter |-> 0, held |-> FALSE, acquired |-> 0, released |-> 0]

\* Mutex.Lock(): blocks on the OS mutex when the counter is zero, so the
\* call returns only if the OS mutex could be taken.
MutexLockAlwaysTakes(m) ==
    [m EXCEPT !.counter = @ + 1, !.held = TRUE, !.acquired = @ + 1]

MutexLock(m) ==
    IF m.counter = 0
    THEN [m EXCEPT !.counter = @ + 1, !.held = TRUE, !.acquired = @ + 1]
    ELSE [m EXCEPT !.counter = @ + 1]

\* Mutex.TryLock(): <<ok, locker>>.
MutexTryLock(m, osFree) ==
    IF m.counter = 0
    THEN IF ~osFree
         THEN <<FALSE, m>>
         ELSE <<TRUE, [m EXCEPT !.counter = @ + 1, !.held = TRUE, !.acquired = @ + 1]>>
    ELSE <<TRUE, [m EXCEPT !.counter = @ + 1]>>

\* Mutex.Unlock()
MutexUnlock(m) ==
    IF m.counter - 1 = 0
    THEN [m EXCEPT !.counter = @ - 1, !.held = FALSE, !.released = @ + 1]
    ELSE [m EXCEPT !.counter = @ - 1]

(***************************************************************************)
(* lbengine lock manager: LockGroup over the lockers of the manager's      *)
(* table.  lk is the table's content, lock id -> locker.                   *)
(***************************************************************************)
\* The unlock loop of LockGroup.Lock (j = i-1 down to 0) and of
\* LockGroup.Unlock (i = len-1 down to 0): unlocks members[j..1] in
\* reverse order.  Returns [lk, log].
RECURSIVE UnlockDown(_, _, _, _)
UnlockDownInOrder(members, j, lk, log) ==
    IF j < 1 THEN [lk |-> lk, log |-> log]
    ELSE LET first == UnlockDown(members, j - 1, lk, log)
         IN [lk |-> [first.lk EXCEPT ![members[j]] = MutexUnlock(@)],
             log |-> Append(first.log, <<"unlock", members[j]>>)]

UnlockDown(members, j, lk, log) ==
    IF j < 1 THEN [lk |-> lk, log |-> log]
    ELSE UnlockDown(members, j - 1,
                    [lk EXCEPT ![members[j]] = MutexUnlock(@)],
                    Append(log, <<"unlock", members[j]>>))

RECURSIVE GroupLockFrom(_, _, _, _, _)
GroupLockFromNoRollback(members, i, lk, osFree, log) ==
    IF i > Len(members)
    THEN [ok |-> TRUE, lk |-> lk, failed |-> "", log |-> log]
    ELSE LET try == MutexTryLock(lk[members[i]], osFree[members[i]])
             tried == Append(log, <<"trylock", members[i]>>)
         IN IF ~try[1]
            THEN [ok |-> FALSE, lk |-> lk, failed |-> members[i], log |-> tried]
            ELSE GroupLockFrom(members, i + 1, [lk EXCEPT ![members[i]] = try[2]],
                               osFree, tried)

\* LockGroup.Lock from member i on.  Returns [ok, lk, failed, log]: failed
\* is the LockID of the LockError.
GroupLockFrom(members, i, lk, osFree, log) ==
    IF i > Len(members)
    THEN [ok |-> TRUE, lk |-> lk, failed |-> "", log |-> log]
    ELSE LET try == MutexTryLock(lk[members[i]], osFree[members[i]])
             tried == Append(log, <<"trylock", members[i]>>)
         IN IF ~try[1]
            THEN LET back == UnlockDown(members, i - 1, lk, tried)
                 IN [ok |-> FALSE, lk |-> back.lk, failed |-> members[i], log |-> back.log]
            ELSE GroupLockFrom(members, i + 1, [lk EXCEPT ![members[i]] = try[2]],
                               osFree, tried)

GroupLock(members, lk, osFree) == GroupLockFrom(members, 1, lk, osFree, <<>>)

GroupUnlockNothing(members, lk) == [lk |-> lk, log |-> <<>>]

GroupUnlock(members, lk) == UnlockDown(members, Len(members), lk, <<>>)

(***************************************************************************)
(* The deployment document (lbdeploy.Deployment), as far as the flow       *)
(* orchestrator reads it.                                                  *)
(***************************************************************************)
Flows == {"X", "Y"}             \* keys of deployment.Flows
LockIDs == {"L1", "L2"}         \* keys of resources.Locks (each with its own mutex)
ConditionIDs == {"c1"}          \* keys of deployment.Conditions

ActionStartFlow == "start-flow"
ActionPreparePackage == "prepare-package"
ActionInvokeCommand == "invoke-command"
ActionCopyFile == "copy-file"
ActionDeleteFile == "delete-file"
LeafActionTypes == {ActionPreparePackage, ActionInvokeCommand, ActionCopyFile, ActionDeleteFile}

Action(type, flow) == [type |-> type, flow |-> flow]

VARIABLES
    dep,          \* the deployment document
    phase,        \* "idle" | "running" | "done": DeploymentEngine.Invoke
    stack,        \* call stack of flowEngine.Invoke frames, innermost last
    activeFlows,  \* engineState.activeFlows
    created,      \* keys of lockManager.locks
    lk,           \* lock id -> reentrant locker
    cancelled,    \* ctx.Err() # nil
    events,       \* what the recorder received, in order
    result,       \* the error DeploymentEngine.Invoke returned
    nextInv,      \* ghost: number of the next flowEngine.Invoke call
    lastLock,     \* ghost: the last LockGroup.Lock call and its outcome
    lastReturn    \* ghost: the last flowEngine.Invoke call that returned

flowVars == <<dep, phase, stack, activeFlows, created, lk, cancelled, events, result,
              nextInv, lastLock, lastReturn>>

VARIABLES
    lock,         \* a reentrant locker used on its own (reentrantlock TestLock)
    osOther,      \* another process owns the OS mutex of lock
    calls,        \* ghost: the Lock/TryLock/Unlock calls on lock that returned, in order
    pkg,          \* the package of a download: expected attributes and sources
    srv,          \* the content the package sources serve
    dl,           \* DownloadAndVerifyPackage: its position, file and verifier
    requests      \* ghost: the HTTP requests issued, in order

lockVars == <<lock, osOther, calls>>

downloadVars == <<pkg, srv, dl, requests>>

VARIABLES
    cmd,          \* an invoke-command action: its command, its position, its result
    installed,    \* the applications installed on the system
    args,         \* the arguments of a function called on its own
    ret,          \* what that call returned
    mr,           \* a MergeReader with its producers and its consumer
    es,           \* the engineState of a deployment invocation on its own
    rec,          \* the recorder the engines hand their events to
    ce,           \* a ConditionEngine with the evaluation it is asked for
    fe,           \* the file system the file engine works on, with a ghost log
    xe            \* an extraction of an archive by the extraction engine

commandVars == <<cmd, installed>>

callVars == <<args, ret>>

restVars == <<commandVars, callVars, mr, es, rec, ce, fe, xe>>

(***************************************************************************)
(* Events (lbdeployevent).                                                 *)
(***************************************************************************)
\* events holds the records handed to the recorder and, as ghost entries
\* (types "eval", "trylock", "unlock"), the precondition evaluations and the
\* locker calls made in between.  inv is the ghost number of the
\* flowEngine.Invoke call the entry belongs to; index is the action index.
Ev(type, frame, index, atype, err, info) ==
    [type |-> type, flow |-> frame.flow, inv |-> frame.inv, index |-> index,
     atype |-> atype, err |-> err, info |-> info]

FlowEv(type, frame, err, info) == Ev(type, frame, -1, "", err, info)

ActionEv(type, frame, err) ==
    Ev(type, frame, frame.i - 1, dep.flows[frame.flow].actions[frame.i].type, err, <<>>)

\* The locker calls of a lock group operation, as ghost entries.
LockEvs(frame, log) == [n \in 1..Len(log) |-> FlowEv(log[n][1], frame, Nil, <<log[n][2]>>)]

(***************************************************************************)
(* Frames of flowEngine.Invoke.                                            *)
(***************************************************************************)
NewFrame(flow) ==
    [flow |-> flow, inv |-> nextInv, reentry |-> flow \in activeFlows, pc |-> "entry", k |-> 1, passed |-> <<>>, failed |-> <<>>,
     locked |-> FALSE, behavior |-> OnErrorUnspecified, i |-> 1, errs |-> <<>>,
     before |-> [l \in LockIDs |-> lk[l].counter]]

Top == stack[Len(stack)]

Def(frame) == dep.flows[frame.flow]

SetTop(frame) == [stack EXCEPT ![Len(stack)] = frame]

Running == phase = "running" /\ Len(stack) > 0

\* The rest of the flow's action loop after ae.Invoke returned err
\* (flow.go:320-328): collect the error and decide whether to go on.
AfterActionIgnoresPolicy(frame, err, ctxErr) ==
    IF err = Nil THEN [frame EXCEPT !.i = @ + 1, !.pc = "loop"]
    ELSE [frame EXCEPT !.errs = Append(@, err), !.i = @ + 1, !.pc = "loop"]

AfterActionDropsError(frame, err, ctxErr) ==
    IF err = Nil THEN [frame EXCEPT !.i = @ + 1, !.pc = "loop"]
    ELSE IF frame.behavior # OnErrorContinue
         THEN [frame EXCEPT !.errs = Append(@, err), !.pc = "stopped"]
         ELSE [frame EXCEPT !.i = @ + 1, !.pc = "loop"]

AfterActionStopsOnHandlerError(frame, err, ctxErr) ==
    IF rec.fails # {}
    THEN [frame EXCEPT !.errs = Append(@, Err("handler failed", <<>>)), !.pc = "stopped"]
    ELSE IF err = Nil THEN [frame EXCEPT !.i = @ + 1, !.pc = "loop"]
    ELSE [frame EXCEPT !.errs = Append(@, err), !.pc = "stopped"]

AfterAction(frame, err, ctxErr) ==
    IF err = Nil THEN [frame EXCEPT !.i = @ + 1, !.pc = "loop"]
    ELSE IF frame.behavior # OnErrorContinue
         THEN [frame EXCEPT !.errs = Append(@, err), !.pc = "stopped"]
         ELSE IF ctxErr = err
              THEN [frame EXCEPT !.errs = Append(@, err), !.pc = "stopped"]
              ELSE [frame EXCEPT !.errs = Append(@, err), !.i = @ + 1, !.pc = "loop"]

\* ctx.Err()
CtxErrNow == IF cancelled THEN CtxErr ELSE Nil

\* The tail of actionEngine.Invoke (ActionStopped) followed by the loop's
\* handling of its result, in the frame that ran the action.
ActionStoppedOnSuccessOnly(frame, err) ==
    IF err = Nil THEN <<ActionEv("ActionStopped", frame, err)>> ELSE <<>>

\* actionEngine.Invoke, after the switch: ActionStopped is recorded whatever
\* the action returned.
ActionStopped(frame, err) == <<ActionEv("ActionStopped", frame, err)>>

FinishAction(stk, ev, err, table) ==
    LET frame == stk[Len(stk)]
    IN /\ stack' = [stk EXCEPT ![Len(stk)] = AfterAction(frame, err, CtxErrNow)]
       /\ events' = ev \o ActionStopped(frame, err)
       /\ created' = table
       /\ UNCHANGED <<phase, result>>

\* flowEngine.Invoke returns err: to the start-flow action of the calling
\* flow, or to DeploymentEngine.Invoke, whose deferred function closes all
\* locks of the lock manager.  table is the lock manager's table so far.
Return(ev, err, table) ==
    LET stk == SubSeq(stack, 1, Len(stack) - 1)
    IN IF Len(stk) = 0
       THEN /\ stack' = stk
            /\ events' = ev
            /\ result' = err
            /\ phase' = "done"
            /\ created' = {}
       ELSE FinishAction(stk, ev, err, table)

(***************************************************************************)
(* DeploymentEngine.Invoke(ctx, flow): looks the flow up and invokes it.   *)
(***************************************************************************)
RootChoices == {"X", "Z"}

InvokeDeployment ==
    /\ phase = "idle"
    /\ \E flow \in RootChoices :
          IF flow \notin DOMAIN dep.flows
          THEN /\ phase' = "done"
               /\ result' = Err("flow does not exist", <<>>)
               /\ UNCHANGED <<stack, nextInv>>
          ELSE /\ phase' = "running"
               /\ stack' = <<NewFrame(flow)>>
               /\ nextInv' = nextInv + 1
               /\ UNCHANGED result
    /\ UNCHANGED <<dep, activeFlows, created, lk, cancelled, events, lastLock, lastReturn>>
    /\ UNCHANGED <<lockVars, downloadVars, restVars>>

\* The context is cancelled by the caller, at any moment.
Cancel ==
    /\ phase # "done"
    /\ ~cancelled
    /\ cancelled' = TRUE
    /\ UNCHANGED <<dep, phase, stack, activeFlows, created, lk, events, result,
                   nextInv, lastLock, lastReturn>>
    /\ UNCHANGED <<lockVars, downloadVars, restVars>>

ReturnedFrom(frame, err, lkAfter) ==
    [flow |-> frame.flow, inv |-> frame.inv, reentry |-> frame.reentry,
     locked |-> frame.locked,
     before |-> frame.before, after |-> [l \in LockIDs |-> lkAfter[l].counter],
     err |-> err]

(***************************************************************************)
(* flowEngine.Invoke, flow.go:182-196: cancellation and cycle checks.      *)
(***************************************************************************)
EntryCheckNoCycleDetection(flow, active, ctxErr) ==
    IF ctxErr # Nil THEN "cancelled" ELSE "enter"

EntryCheck(flow, active, ctxErr) ==
    IF ctxErr # Nil THEN "cancelled"
    ELSE IF flow \in active THEN "already running"
    ELSE "enter"

AfterEntrySkipsPreconditions(conditions) == "locks"

\* flow.go:199: the precondition block runs only for a non-empty list.
AfterEntry(conditions) == IF Len(conditions) > 0 THEN "preconditions" ELSE "locks"

FlowEntry ==
    /\ Running
    /\ Top.pc = "entry"
    /\ IF EntryCheck(Top.flow, activeFlows, CtxErrNow) = "cancelled"
       THEN /\ Return(events, CtxErrNow, created)
            /\ lastReturn' = ReturnedFrom(Top, CtxErrNow, lk)
       ELSE IF EntryCheck(Top.flow, activeFlows, CtxErrNow) = "already running"
       THEN LET err == Err("flow is already running", <<>>)
            IN /\ Return(Append(events, FlowEv("FlowAlreadyRunning", Top, Nil, <<>>)), err, created)
               /\ lastReturn' = ReturnedFrom(Top, err, lk)
       ELSE /\ stack' = SetTop([Top EXCEPT !.pc = AfterEntry(Def(Top).preconditions)])
            /\ UNCHANGED <<phase, result, created, events, lastReturn>>
    /\ UNCHANGED <<dep, activeFlows, lk, cancelled, nextInv, lastLock>>
    /\ UNCHANGED <<lockVars, downloadVars, restVars>>

AfterPreconditionsAlwaysProceeds(failed) == "locks"

\* flow.go:233-235: the flow returns when a precondition failed.
AfterPreconditions(failed) == IF Len(failed) > 0 THEN "return" ELSE "locks"

(***************************************************************************)
(* flowEngine.Invoke, flow.go:198-236: one precondition per step; its      *)
(* result comes from the condition engine, which reads the system state.   *)
(***************************************************************************)
FlowPrecondition ==
    /\ Running
    /\ Top.pc = "preconditions"
    /\ LET conditions == Def(Top).preconditions
           condition == conditions[Top.k]
           evaluated == Append(events, FlowEv("eval", Top, Nil, <<condition>>))
       IN \E outcome \in {"true", "false", "error"} :
            IF outcome = "error"
            THEN LET cerr == Err("condition evaluation failed", <<>>)
                     err == Wrap("failed to evaluate precondition", cerr)
                 IN /\ Return(Append(evaluated, FlowEv("FlowCondition", Top, cerr, <<>>)), err, created)
                    /\ lastReturn' = ReturnedFrom(Top, err, lk)
            ELSE LET passed == IF outcome = "true" THEN Append(Top.passed, condition) ELSE Top.passed
                     failed == IF outcome = "true" THEN Top.failed ELSE Append(Top.failed, condition)
                     frame == [Top EXCEPT !.passed = passed, !.failed = failed, !.k = @ + 1]
                 IN IF Top.k < Len(conditions)
                    THEN /\ stack' = SetTop(frame)
                         /\ events' = evaluated
                         /\ UNCHANGED <<phase, result, created, lastReturn>>
                    ELSE LET ev == Append(evaluated,
                                      FlowEv("FlowCondition", Top, Nil, <<passed, failed>>))
                         IN IF AfterPreconditions(failed) = "return"
                            THEN LET err == Err("preconditions failed", <<>>)
                                 IN /\ Return(ev, err, created)
                                    /\ lastReturn' = ReturnedFrom(Top, err, lk)
                            ELSE /\ stack' = SetTop([frame EXCEPT !.pc = "locks"])
                                 /\ events' = ev
                                 /\ UNCHANGED <<phase, result, created, lastReturn>>
    /\ UNCHANGED <<dep, activeFlows, lk, cancelled, nextInv, lastLock>>
    /\ UNCHANGED <<lockVars, downloadVars, restVars>>

(***************************************************************************)
(* lockManager.Create: adds a locker to the table for every requested id   *)
(* in order and stops at the first id that resources.Locks lacks.          *)
(* Returns [ok, created].                                                  *)
(***************************************************************************)
LockCreate(locks, table) ==
    LET bad == {n \in 1..Len(locks) : locks[n] \notin LockIDs}
        stop == IF bad = {} THEN Len(locks) + 1
                ELSE CHOOSE n \in bad : \A m \in bad : n <= m
    IN [ok |-> bad = {},
        created |-> table \cup {locks[n] : n \in 1..(stop - 1)}]

\* The ways the OS mutexes can answer TryLock; only the lockers of the
\* group that this process does not hold yet ask the OS.
OsAnswers(locks) ==
    {f \in [LockIDs -> BOOLEAN] :
        \A l \in LockIDs :
            (~f[l]) => (lk[l].counter = 0 /\ \E n \in 1..Len(locks) : locks[n] = l)}

\* flow.go:280-294: overlay the behavior, enter the active-flow set and
\* record FlowStarted.
StartedFrame(frame, locked) ==
    [frame EXCEPT !.pc = "loop", !.locked = locked,
                  !.behavior = OverlayBehavior(dep.behavior, Def(frame).behavior)]

(***************************************************************************)
(* flowEngine.Invoke, flow.go:238-294: the lock group, then the start of   *)
(* the flow.                                                               *)
(***************************************************************************)
FlowLocks ==
    /\ Running
    /\ Top.pc = "locks"
    /\ LET locks == Def(Top).locks
       IN IF Len(locks) = 0
          THEN /\ stack' = SetTop(StartedFrame(Top, FALSE))
               /\ activeFlows' = activeFlows \cup {Top.flow}
               /\ events' = Append(events, FlowEv("FlowStarted", Top, Nil, <<>>))
               /\ UNCHANGED <<phase, result, created, lk, lastLock, lastReturn>>
          ELSE LET made == LockCreate(locks, created)
               IN IF ~made.ok
                  THEN LET err == Err("failed to prepare lock group", <<>>)
                       IN /\ Return(events, err, made.created)
                          /\ lastReturn' = ReturnedFrom(Top, err, lk)
                          /\ UNCHANGED <<activeFlows, lk, lastLock>>
                  ELSE \E osFree \in OsAnswers(locks) :
                         LET r == GroupLock(locks, lk, osFree)
                             ev == events \o LockEvs(Top, r.log)
                         IN /\ lk' = r.lk
                            /\ lastLock' = [members |-> locks, before |-> lk, osFree |-> osFree,
                                            ok |-> r.ok, failed |-> r.failed, log |-> r.log,
                                            after |-> r.lk]
                            /\ IF ~r.ok
                               THEN LET err == Wrap("failed to acquire locks",
                                                    Err("LockError", <<r.failed>>))
                                    IN /\ Return(Append(ev, FlowEv("FlowLockNotAcquired", Top,
                                                              Err("LockError", <<r.failed>>),
                                                              <<r.failed>>)), err,
                                                 made.created)
                                       /\ lastReturn' = ReturnedFrom(Top, err, r.lk)
                                       /\ UNCHANGED activeFlows
                               ELSE /\ stack' = SetTop(StartedFrame(Top, TRUE))
                                    /\ activeFlows' = activeFlows \cup {Top.flow}
                                    /\ events' = Append(ev, FlowEv("FlowStarted", Top, Nil, <<>>))
                                    /\ created' = made.created
                                    /\ UNCHANGED <<phase, result, lastReturn>>
    /\ UNCHANGED <<dep, cancelled, nextInv>>
    /\ UNCHANGED <<lockVars, downloadVars, restVars>>

(***************************************************************************)
(* flowEngine.Invoke, flow.go:299-317: the head of one iteration of the    *)
(* action loop, up to the call of ae.Invoke.  The context may be cancelled *)
(* between the test of ctx.Err() made here and anything that follows.      *)
(***************************************************************************)
LoopHeadIgnoresCancellation(i, actions, ctxErr) ==
    IF i > Len(actions) THEN "done" ELSE "invoke"

LoopHead(i, actions, ctxErr) ==
    IF i > Len(actions) THEN "done"
    ELSE IF ctxErr # Nil THEN "cancelled"
    ELSE "invoke"

FlowLoop ==
    /\ Running
    /\ Top.pc = "loop"
    /\ IF LoopHead(Top.i, Def(Top).actions, CtxErrNow) = "done"
       THEN /\ stack' = SetTop([Top EXCEPT !.pc = "stopped"])
            /\ UNCHANGED events
       ELSE IF LoopHead(Top.i, Def(Top).actions, CtxErrNow) = "cancelled"
       THEN /\ stack' = SetTop([Top EXCEPT !.errs = Append(@, CtxErrNow), !.pc = "stopped"])
            /\ UNCHANGED events
       ELSE /\ stack' = SetTop([Top EXCEPT !.pc = "invoke"])
            /\ UNCHANGED events
    /\ UNCHANGED <<dep, phase, activeFlows, created, lk, cancelled, result,
                   nextInv, lastLock, lastReturn>>
    /\ UNCHANGED <<lockVars, downloadVars, restVars>>

\* The ActionStarted record of actionEngine.Invoke.  ctx is a ghost: the
\* error of the context when the record was made.
ActionStarted(frame, ctx) ==
    [ActionEv("ActionStarted", frame, Nil) EXCEPT !.info = <<ctx>>]

(***************************************************************************)
(* actionEngine.Invoke, state.go:235-243: the action engine the loop made  *)
(* is invoked and records ActionStarted, without a look at the context.    *)
(***************************************************************************)
ActionEngineInvoke ==
    /\ Running
    /\ Top.pc = "invoke"
    /\ stack' = SetTop([Top EXCEPT !.pc = "action"])
    /\ events' = Append(events, ActionStarted(Top, CtxErrNow))
    /\ UNCHANGED <<dep, phase, activeFlows, created, lk, cancelled, result,
                   nextInv, lastLock, lastReturn>>
    /\ UNCHANGED <<lockVars, downloadVars, restVars>>

CurrentAction == Def(Top).actions[Top.i]

(***************************************************************************)
(* actionEngine.startFlow: looks the flow up and calls flowEngine.Invoke.  *)
(***************************************************************************)
ActionStartFlowStep ==
    /\ Running
    /\ Top.pc = "action"
    /\ CurrentAction.type = ActionStartFlow
    /\ IF CurrentAction.flow \notin DOMAIN dep.flows
       THEN /\ FinishAction(stack, events, Err("flow does not exist", <<>>), created)
            /\ UNCHANGED nextInv
       ELSE /\ stack' = Append(stack, NewFrame(CurrentAction.flow))
            /\ nextInv' = nextInv + 1
            /\ UNCHANGED <<phase, result, created, events>>
    /\ UNCHANGED <<dep, activeFlows, lk, cancelled, lastLock, lastReturn>>
    /\ UNCHANGED <<lockVars, downloadVars, restVars>>

(***************************************************************************)
(* prepare-package, invoke-command, copy-file, delete-file: the action     *)
(* body runs in the package, command or file engine and returns nil or an  *)
(* error; once the context is cancelled it may also return ctx.Err()       *)
(* itself or an error that wraps it.                                       *)
(***************************************************************************)
LeafResults ==
    {Nil, Err("action failed", <<>>)}
        \cup (IF cancelled THEN {CtxErr, Wrap("action failed", CtxErr)} ELSE {})

ActionLeafStep ==
    /\ Running
    /\ Top.pc = "action"
    /\ CurrentAction.type \in LeafActionTypes
    /\ \E err \in LeafResults : FinishAction(stack, events, err, created)
    /\ UNCHANGED <<dep, activeFlows, lk, cancelled, nextInv, lastLock, lastReturn>>
    /\ UNCHANGED <<lockVars, downloadVars, restVars>>

\* The default case of the action switch.
ActionUnknownStep ==
    /\ Running
    /\ Top.pc = "action"
    /\ CurrentAction.type \notin LeafActionTypes \cup {ActionStartFlow}
    /\ FinishAction(stack, events, Err("unrecognized action type", <<>>), created)
    /\ UNCHANGED <<dep, activeFlows, lk, cancelled, nextInv, lastLock, lastReturn>>
    /\ UNCHANGED <<lockVars, downloadVars, restVars>>

FlowStoppedOnSuccessOnly(frame, err) ==
    IF err = Nil THEN <<FlowEv("FlowStopped", frame, err, <<>>)>> ELSE <<>>

\* flow.go:337-343: FlowStopped is recorded whatever the action loop
\* returned.
FlowStopped(frame, err) == <<FlowEv("FlowStopped", frame, err, <<>>)>>

ActiveOnExitKeeps(active, flow) == active

\* flow.go:285: the deferred activeFlows.Remove of a flow that had started.
ActiveOnExit(active, flow) == active \ {flow}

(***************************************************************************)
(* flowEngine.Invoke, flow.go:330-345 and the deferred calls of lines 277  *)
(* and 285: FlowStopped, leave the active-flow set, unlock the group.      *)
(***************************************************************************)
FlowStop ==
    /\ Running
    /\ Top.pc = "stopped"
    /\ LET err == JoinErrs(Top.errs)
           un == IF Top.locked THEN GroupUnlock(Def(Top).locks, lk)
                 ELSE [lk |-> lk, log |-> <<>>]
       IN /\ activeFlows' = ActiveOnExit(activeFlows, Top.flow)
          /\ lk' = un.lk
          /\ Return(events \o FlowStopped(Top, err) \o LockEvs(Top, un.log),
                    err, created)
          /\ lastReturn' = ReturnedFrom(Top, err, un.lk)
    /\ UNCHANGED <<dep, cancelled, nextInv, lastLock>>
    /\ UNCHANGED <<lockVars, downloadVars, restVars>>

(***************************************************************************)
(* The deployment documents explored.                                      *)
(***************************************************************************)
LockRefs == LockIDs \cup {"Lu"}     \* "Lu" is not declared in resources.Locks

\* The flow the deployment engine is asked for, "X", starts "Y"; "Y" may
\* start "X" again, and "Z" is no flow of the document.
ActionsX == {Action(ActionStartFlow, "Y"), Action(ActionPreparePackage, ""), Action("bogus", "")}
ActionsY == {Action(ActionStartFlow, "X"), Action(ActionCopyFile, ""), Action(ActionStartFlow, "Z")}

Flow(pre, locks, behavior, actions) ==
    [preconditions |-> pre, locks |-> locks, behavior |-> behavior, actions |-> actions]

\* Documents that vary the actions and the on-error behaviors.
PolicyDeployments ==
    {[behavior |-> b, flows |-> [f \in Flows |-> IF f = "X" THEN Flow(<<>>, <<>>, bx, ax)
                                                 ELSE Flow(<<>>, <<>>, by, ay)]] :
        b \in {OnErrorUnspecified, OnErrorContinue}, bx \in OnErrorValues,
        by \in {OnErrorUnspecified, OnErrorStop},
        ax \in SeqsUpTo(ActionsX, MaxActions), ay \in SeqsUpTo(ActionsY, MaxActions)}

\* Documents that vary the lock groups of both flows.
LockDeployments ==
    {[behavior |-> b, flows |-> [f \in Flows |-> IF f = "X"
            THEN Flow(<<>>, lx, OnErrorUnspecified,
                      <<Action(ActionStartFlow, "Y"), Action(ActionInvokeCommand, "")>>)
            ELSE Flow(<<>>, ly, OnErrorUnspecified, ay)]] :
        b \in {OnErrorUnspecified, OnErrorContinue},
        lx \in SeqsUpTo(LockRefs, MaxLocks), ly \in SeqsUpTo(LockIDs, MaxLocks),
        ay \in {<<Action(ActionDeleteFile, "")>>, <<Action(ActionStartFlow, "X")>>}}

\* Documents that vary the preconditions of both flows.
PreconditionDeployments ==
    {[behavior |-> b, flows |-> [f \in Flows |-> IF f = "X"
            THEN Flow(px, <<"L1">>, OnErrorUnspecified,
                      <<Action(ActionStartFlow, "Y"), Action(ActionInvokeCommand, "")>>)
            ELSE Flow(py, <<"L2", "L1">>, OnErrorUnspecified, <<Action(ActionDeleteFile, "")>>)]] :
        b \in {OnErrorUnspecified, OnErrorContinue},
        px \in SeqsUpTo(ConditionIDs, MaxPre), py \in SeqsUpTo(ConditionIDs, MaxPre)}

Deployments == PolicyDeployments \cup LockDeployments \cup PreconditionDeployments

NoLock ==
    [members |-> <<>>, before |-> [l \in LockIDs |-> NewLocker],
     osFree |-> [l \in LockIDs |-> TRUE], ok |-> TRUE, failed |-> "", log |-> <<>>,
     after |-> [l \in LockIDs |-> NewLocker]]

NoReturn ==
    [flow |-> "", inv |-> 0, reentry |-> FALSE, locked |-> FALSE, before |-> [l \in LockIDs |-> 0],
     after |-> [l \in LockIDs |-> 0], err |-> Nil]

InitEngine ==
    /\ phase = "idle"
    /\ stack = <<>>
    /\ activeFlows = {}
    /\ created = {}
    /\ lk = [l \in LockIDs |-> NewLocker]
    /\ cancelled = FALSE
    /\ events = <<>>
    /\ result = Nil
    /\ nextInv = 1
    /\ lastLock = NoLock
    /\ lastReturn = NoReturn

\* The reentrant locker of the harness, before anything used it.
InitLocker ==
    /\ lock = NewLocker
    /\ osOther = FALSE
    /\ calls = <<>>

\* No download was asked for.
NoPackage == [expected |-> [size |-> 0, hashes |-> <<>>], sources |-> 0]

NoDownload == [pc |-> "off"]

InitNoDownload ==
    /\ pkg = NoPackage
    /\ srv = <<>>
    /\ dl = NoDownload
    /\ requests = <<>>

\* No command is invoked, no function is called on its own, and there is
\* no MergeReader.
NoCommand == [pc |-> "off"]

NoCall == [fn |-> ""]

NoMergeReader == [pc |-> "off"]

NoEngineState == [pc |-> "off"]

NoRecorder == [handler |-> "", fails |-> {}]

NoConditionEngine == [pc |-> "off"]

NoFileEngine == [pc |-> "off"]

NoExtraction == [pc |-> "off"]

InitNoCommand == cmd = NoCommand /\ installed = {}

InitNoCall == args = NoCall /\ ret = NoCall

InitRest ==
    /\ InitLocker
    /\ InitNoDownload
    /\ InitNoCommand
    /\ InitNoCall
    /\ mr = NoMergeReader
    /\ es = NoEngineState
    /\ rec = NoRecorder
    /\ ce = NoConditionEngine
    /\ fe = NoFileEngine
    /\ xe = NoExtraction

Init ==
    /\ dep \in Deployments
    /\ InitEngine
    /\ InitRest

vars == <<flowVars, lockVars, downloadVars, restVars>>

Next ==
    \/ InvokeDeployment
    \/ Cancel
    \/ FlowEntry
    \/ FlowPrecondition
    \/ FlowLocks
    \/ FlowLoop
    \/ ActionEngineInvoke
    \/ ActionStartFlowStep
    \/ ActionLeafStep
    \/ ActionUnknownStep
    \/ FlowStop

Spec == Init /\ [][Next]_vars

(***************************************************************************)
(* The file engine (lbengine/file.go): the copy-file and delete-file       *)
(* actions of a flow, on a file system.  fe.fs gives for every file        *)
(* resource whether its directory is there and what is at its path;        *)
(* fe.ops is a ghost, the calls made on the file system in order.          *)
(***************************************************************************)
\* Keys of resources.FileSystem.Files: "s" and "t" lie under public-desktop,
\* "p" lies under program-data.
FileResourceIDs == {"s", "t", "p"}

FileRoot(file) == IF file = "p" THEN "program-data" ELSE "public-desktop"

\* KnownFolder.Protected: the program-data root is protected.
Protected(root) == root = "program-data"

\* FileSystemResources.ResolveFile: the root of the file, or an error for a
\* file the resources do not define.
ResolveFile(file) ==
    IF file \in FileResourceIDs
    THEN [root |-> FileRoot(file), err |-> Nil]
    ELSE [root |-> "", err |-> Err("the file is not defined in the deployment's resources", <<>>)]

\* A copy-file or delete-file action of a flow.
FileAction(type, source, destination) ==
    [type |-> type, flow |-> "", source |-> source, destination |-> destination]

FileState(dir, kind, data) == [dir |-> dir, kind |-> kind, data |-> data]

NotRegularDestination ==
    Err("the destination file path already exists but is not a regular file", <<>>)

NotRegularFile == Err("the file path exists but is not a regular file", <<>>)

CopyFileChecksNoProtection(action) ==
    IF ResolveFile(action.source).err # Nil
    THEN Wrap("source file", ResolveFile(action.source).err)
    ELSE IF ResolveFile(action.destination).err # Nil
    THEN Wrap("destination file", ResolveFile(action.destination).err)
    ELSE Nil

\* CopyFile, file.go:30-47: both files are resolved and the root of the
\* destination is tested before anything is opened.
CopyFileChecks(action) ==
    IF ResolveFile(action.source).err # Nil
    THEN Wrap("source file", ResolveFile(action.source).err)
    ELSE IF ResolveFile(action.destination).err # Nil
    THEN Wrap("destination file", ResolveFile(action.destination).err)
    ELSE IF Protected(ResolveFile(action.destination).root)
    THEN Err("the destination file is located in a protected root", <<>>)
    ELSE Nil

\* DeleteFile, file.go:157-167.
DeleteFileChecks(action) ==
    IF ResolveFile(action.destination).err # Nil
    THEN Wrap("file", ResolveFile(action.destination).err)
    ELSE IF Protected(ResolveFile(action.destination).root)
    THEN Err("the file is located in a protected root", <<>>)
    ELSE Nil

\* What creating and writing the destination can do.
IOOutcomes == {"ok", "create failed", "write failed", "time failed", "remove failed"}

\* CopyFile, the function of file.go:58-128.  Returns its error, whether
\* the destination existed, the file system after it and the calls made.
\* localfs.OpenFile opens whatever is at the source's path: a source that
\* is not a regular file is opened, the destination is created, and the
\* copy fails on its first read.
CopyFileBody(fs, action, io) ==
    LET src == action.source
        dst == action.destination
        out(err, existed, after, ops) ==
            [err |-> err, existed |-> existed, fs |-> after, ops |-> ops]
        empty == [fs EXCEPT ![dst] = FileState("present", "regular", 0)]
        written == [fs EXCEPT ![dst] = FileState("present", "regular", fs[src].data)]
    IN IF fs[dst].dir # "present"
       THEN out(Wrap("unable to open the destination directory",
                     Err("file does not exist", <<>>)),
                FALSE, fs, <<<<"OpenDir", dst>>>>)
       ELSE IF fs[dst].kind = "regular"
       THEN out(Nil, TRUE, fs, <<<<"OpenDir", dst>>, <<"Stat", dst>>>>)
       ELSE IF fs[dst].kind # "missing"
       THEN out(NotRegularDestination, FALSE, fs, <<<<"OpenDir", dst>>, <<"Stat", dst>>>>)
       ELSE IF fs[src].dir # "present" \/ fs[src].kind = "missing"
       THEN out(Wrap("unable to open the source file", Err("file does not exist", <<>>)),
                FALSE, fs, <<<<"OpenDir", dst>>, <<"Stat", dst>>, <<"Open", src>>>>)
       ELSE IF io = "create failed"
       THEN out(Err("create failed", <<>>), FALSE, fs,
                <<<<"OpenDir", dst>>, <<"Stat", dst>>, <<"Open", src>>, <<"Create", dst>>>>)
       ELSE IF fs[src].kind # "regular"
       THEN out(Err("read failed", <<>>), FALSE, empty,
                <<<<"OpenDir", dst>>, <<"Stat", dst>>, <<"Open", src>>, <<"Create", dst>>,
                  <<"Write", dst>>>>)
       ELSE IF io = "write failed"
       THEN out(Err("write failed", <<>>), FALSE, empty,
                <<<<"OpenDir", dst>>, <<"Stat", dst>>, <<"Open", src>>, <<"Create", dst>>,
                  <<"Write", dst>>>>)
       ELSE IF io = "time failed"
       THEN out(Wrap("failed to set file modification time", Err("access denied", <<>>)),
                FALSE, written,
                <<<<"OpenDir", dst>>, <<"Stat", dst>>, <<"Open", src>>, <<"Create", dst>>,
                  <<"Write", dst>>, <<"SetTime", dst>>>>)
       ELSE out(Nil, FALSE, written,
                <<<<"OpenDir", dst>>, <<"Stat", dst>>, <<"Open", src>>, <<"Create", dst>>,
                  <<"Write", dst>>, <<"SetTime", dst>>>>)

\* DeleteFile, the function of file.go:177-211.
DeleteFileBody(fs, action, io) ==
    LET dst == action.destination
        out(err, existed, after, ops) ==
            [err |-> err, existed |-> existed, fs |-> after, ops |-> ops]
    IN IF fs[dst].dir # "present"
       THEN out(Nil, FALSE, fs, <<<<"OpenDir", dst>>>>)
       ELSE IF fs[dst].kind = "missing"
       THEN out(Nil, FALSE, fs, <<<<"OpenDir", dst>>, <<"Stat", dst>>>>)
       ELSE IF fs[dst].kind # "regular"
       THEN out(NotRegularFile, FALSE, fs, <<<<"OpenDir", dst>>, <<"Stat", dst>>>>)
       ELSE IF io = "remove failed"
       THEN out(Err("remove failed", <<>>), TRUE, fs,
                <<<<"OpenDir", dst>>, <<"Stat", dst>>, <<"Remove", dst>>>>)
       ELSE out(Nil, TRUE, [fs EXCEPT ![dst] = FileState("present", "missing", 0)],
                <<<<"OpenDir", dst>>, <<"Stat", dst>>, <<"Remove", dst>>>>)

\* The FileCopy or FileDelete record, with the error of the function.
FileEv(type, frame, err, existed) ==
    Ev(type, frame, frame.i - 1, Def(frame).actions[frame.i].type, err, <<existed>>)

\* fileEngine.CopyFile and fileEngine.DeleteFile: an error of the checks is
\* returned; else the function runs, its error goes into the record, and
\* the call returns nil (file.go:152, 233).
FileEngineCall(fs, frame, action, io) ==
    LET copy == action.type = ActionCopyFile
        pre == IF copy THEN CopyFileChecks(action) ELSE DeleteFileChecks(action)
        body == IF copy THEN CopyFileBody(fs, action, io) ELSE DeleteFileBody(fs, action, io)
    IN IF pre # Nil
       THEN [err |-> pre, fs |-> fs, ops |-> <<>>, evs |-> <<>>]
       ELSE [err |-> Nil, fs |-> body.fs, ops |-> body.ops,
             evs |-> <<FileEv(IF copy THEN "FileCopy" ELSE "FileDelete", frame,
                              body.err, body.existed)>>]

\* actionEngine.copyFile and actionEngine.deleteFile (state.go:443-470) as
\* the body of the action: the file engine is called and its result is the
\* result of the action.
ActionFileStep ==
    /\ Running
    /\ fe.pc = "on"
    /\ Top.pc = "action"
    /\ CurrentAction.type \in {ActionCopyFile, ActionDeleteFile}
    /\ \E io \in IOOutcomes :
          LET r == FileEngineCall(fe.fs, Top, CurrentAction, io)
              ops == [n \in 1..Len(r.ops) |->
                         [op |-> r.ops[n][1], file |-> r.ops[n][2], inv |-> Top.inv,
                          index |-> Top.i - 1]]
          IN /\ fe' = [fe EXCEPT !.fs = r.fs, !.ops = @ \o ops]
             /\ FinishAction(stack, events \o r.evs, r.err, created)
    /\ UNCHANGED <<dep, activeFlows, lk, cancelled, nextInv, lastLock, lastReturn>>
    /\ UNCHANGED <<lockVars, downloadVars, commandVars, callVars, mr, es, rec, ce, xe>>

\* The file actions of the documents: copies to "t" and to the protected
\* "p", deletions of both, and a copy from a file that is not defined.
FileActions ==
    {FileAction(ActionCopyFile, "s", "t"), FileAction(ActionCopyFile, "s", "p"),
     FileAction(ActionCopyFile, "u", "t"), FileAction(ActionCopyFile, "p", "t"),
     FileAction(ActionDeleteFile, "", "t"), FileAction(ActionDeleteFile, "", "p")}

\* Documents whose flow "X" is a list of file actions.
FileDeployments ==
    {[behavior |-> b, flows |-> [f \in Flows |-> IF f = "X"
            THEN Flow(<<>>, <<>>, OnErrorUnspecified, ax)
            ELSE Flow(<<>>, <<>>, OnErrorUnspecified, <<>>)]] :
        b \in {OnErrorStop, OnErrorContinue}, ax \in SeqsUpTo(FileActions, MaxActions)}

\* The file systems: the source is there or not; the destination is
\* missing with or without its directory, a regular file, or something
\* else; the protected file is a regular file or something else.
FileSystems ==
    {[file \in FileResourceIDs |->
         IF file = "s" THEN FileState("present", s, 1)
         ELSE IF file = "t" THEN t ELSE FileState("present", q, 2)] :
        s \in {"regular", "missing"},
        t \in {FileState("missing", "missing", 0), FileState("present", "missing", 0),
               FileState("present", "regular", 0), FileState("present", "other", 0)},
        q \in {"regular", "other"}}

NewFileEngine(fs) == [pc |-> "on", fs0 |-> fs, fs |-> fs, ops |-> <<>>]

InitFile ==
    /\ dep \in FileDeployments
    /\ InitEngine
    /\ InitLocker
    /\ InitNoDownload
    /\ InitNoCommand
    /\ InitNoCall
    /\ mr = NoMergeReader
    /\ es = NoEngineState
    /\ rec = NoRecorder
    /\ ce = NoConditionEngine
    /\ xe = NoExtraction
    /\ fe \in {NewFileEngine(fs) : fs \in FileSystems}

NextFile ==
    \/ InvokeDeployment
    \/ Cancel
    \/ FlowEntry
    \/ FlowLocks
    \/ FlowLoop
    \/ ActionEngineInvoke
    \/ ActionFileStep
    \/ FlowStop

SpecFile == InitFile /\ [][NextFile]_vars

(***************************************************************************)
(* The extraction engine: extractionEngine.extractPackage on an archive,   *)
(* given by its entries in archive order.  An entry is a directory or a    *)
(* file of one byte.  xe.written is a ghost: the names made in the         *)
(* extraction directory, in order.                                         *)
(***************************************************************************)
ZipEntry(name, dir) == [name |-> name, dir |-> dir]

\* lbdeployevent.ExtractionStats
ExtractionStats(files, directories, totalBytes) ==
    [files |-> files, directories |-> directories, totalBytes |-> totalBytes]

\* The statistics of the first n entries (state.go:80-92 for all of them).
StatsOf(entries, n) ==
    LET files == Cardinality({k \in 1..n : ~entries[k].dir})
    IN ExtractionStats(files, n - files, files)

XeEv(type, number, path, err, source, destination, ctx) ==
    [type |-> type, number |-> number, path |-> path, err |-> err,
     source |-> source, destination |-> destination, ctx |-> ctx]

NoStats == ExtractionStats(0, 0, 0)

ExtractionStarted(source) == XeEv("ExtractionStarted", -1, "", Nil, source, NoStats, Nil)

\* The engine is not in use: no action of the flow engine is enabled.
EngineOff ==
    /\ dep = [behavior |-> OnErrorUnspecified,
              flows |-> [f \in Flows |-> Flow(<<>>, <<>>, OnErrorUnspecified, <<>>)]]
    /\ phase = "off"
    /\ stack = <<>>
    /\ activeFlows = {}
    /\ created = {}
    /\ lk = [l \in LockIDs |-> NewLocker]
    /\ cancelled = FALSE
    /\ events = <<>>
    /\ result = Nil
    /\ nextInv = 1
    /\ lastLock = NoLock
    /\ lastReturn = NoReturn

\* ctx is a ghost: the error of the context when the entry was handled.
ExtractedFile(number, path, err, ctx) ==
    XeEv("ExtractedFile", number, path, err, NoStats, NoStats, ctx)

ExtractionStopped(source, destination, err) ==
    XeEv("ExtractionStopped", -1, "", err, source, destination, Nil)

NewExtraction(entries) ==
    [pc |-> "open", entries |-> entries, i |-> 1, checked |-> Nil, written |-> <<>>,
     result |-> Nil]

\* extractPackage returns err.
ExtractionReturn(x, err) == [x EXCEPT !.pc = "done", !.result = err]

\* state.go:192-203: the end of the extraction, with ExtractionStopped.
ExtractionEnd(x, err) ==
    [xe |-> ExtractionReturn(x, err),
     evs |-> <<ExtractionStopped(StatsOf(x.entries, Len(x.entries)),
                                 StatsOf(x.entries, Len(x.written)), err)>>]

ExtractionNextIgnoresFailure(x, i, err) ==
    IF i < Len(x.entries)
    THEN [xe |-> [x EXCEPT !.pc = "entries", !.i = i + 1], evs |-> <<>>]
    ELSE ExtractionEnd(x, err)

\* state.go:106-185: the loop over the entries after entry i was handled
\* with err (i = 0 at the start): an error ends the loop, else the next
\* entry follows, if there is one.
ExtractionNext(x, i, err) ==
    IF err # Nil
    THEN ExtractionEnd(x, err)
    ELSE IF i < Len(x.entries)
    THEN [xe |-> [x EXCEPT !.pc = "entries", !.i = i + 1], evs |-> <<>>]
    ELSE ExtractionEnd(x, Nil)

\* state.go:64-103: the archive is opened, which may fail, its statistics
\* are collected and ExtractionStarted is recorded.
ExtractionOpen ==
    /\ xe.pc = "open"
    /\ \E opened \in {"ok", "stat failed", "not a zip file"} :
          IF opened # "ok"
          THEN /\ xe' = ExtractionReturn(xe, Err(opened, <<>>))
               /\ events' = events
          ELSE LET next == ExtractionNext(xe, 0, Nil)
               IN /\ xe' = next.xe
                  /\ events' = Append(events,
                                      ExtractionStarted(StatsOf(xe.entries, Len(xe.entries))))
                                 \o next.evs
    /\ UNCHANGED <<dep, phase, stack, activeFlows, created, lk, cancelled, result,
                   nextInv, lastLock, lastReturn>>
    /\ UNCHANGED <<lockVars, downloadVars, commandVars, callVars, mr, es, rec, ce, fe>>

\* state.go:164-180: the entry's ExtractedFile is recorded with its error,
\* and the loop goes on or ends.
ExtractionRecord(x, err) ==
    LET entry == x.entries[x.i]
        x1 == IF err = Nil THEN [x EXCEPT !.written = Append(@, entry.name)] ELSE x
        next == ExtractionNext(x1, x.i, err)
    IN [xe |-> next.xe,
        evs |-> <<ExtractedFile(x.i - 1, entry.name, err, x.checked)>> \o next.evs]

\* state.go:107-145, a pass of the loop up to the write: the context is
\* tested; a directory is made; for a file its directory is made and the
\* entry is opened.
ExtractionEntry ==
    /\ xe.pc = "entries"
    /\ LET entry == xe.entries[xe.i]
           x == [xe EXCEPT !.checked = CtxErrNow]
       IN IF CtxErrNow # Nil
          THEN LET end == ExtractionEnd(xe, CtxErrNow)
               IN xe' = end.xe /\ events' = events \o end.evs
          ELSE \E err \in {Nil, Err("mkdir failed", <<>>)}
                             \cup (IF entry.dir THEN {} ELSE {Err("open failed", <<>>)}) :
                  IF err = Nil /\ ~entry.dir
                  THEN xe' = [x EXCEPT !.pc = "write"] /\ events' = events
                  ELSE LET rec1 == ExtractionRecord(x, err)
                       IN xe' = rec1.xe /\ events' = events \o rec1.evs
    /\ UNCHANGED <<dep, phase, stack, activeFlows, created, lk, cancelled, result,
                   nextInv, lastLock, lastReturn>>
    /\ UNCHANGED <<lockVars, downloadVars, commandVars, callVars, mr, es, rec, ce, fe>>

\* What ExtractionDir.WriteFile returns (tempfs/package.go:317-360): the
\* file cannot be created, whatever the context; else the content is copied
\* from a reader that returns the context's error once the context is done
\* (readercontext.go:28-33), and the copy may fail on its own.
WriteOutcomes(ctx) ==
    {Err("failed to create file", <<>>)}
        \cup (IF ctx # Nil THEN {ctx} ELSE {Nil, Err("write failed", <<>>)})

\* state.go:147-180: the file is written.
ExtractionWrite ==
    /\ xe.pc = "write"
    /\ \E err \in WriteOutcomes(CtxErrNow) :
          LET rec1 == ExtractionRecord(xe, err)
          IN xe' = rec1.xe /\ events' = events \o rec1.evs
    /\ UNCHANGED <<dep, phase, stack, activeFlows, created, lk, cancelled, result,
                   nextInv, lastLock, lastReturn>>
    /\ UNCHANGED <<lockVars, downloadVars, commandVars, callVars, mr, es, rec, ce, fe>>

\* Cancellation of the context while the archive is extracted.
CancelExtraction == xe.pc # "done" /\ Cancel

\* The archives: up to MaxEntries entries, directories and files.
ZipEntries == {ZipEntry("d/", TRUE), ZipEntry("f", FALSE), ZipEntry("d/g", FALSE)}

InitExtraction ==
    /\ EngineOff
    /\ InitLocker
    /\ InitNoDownload
    /\ InitNoCommand
    /\ InitNoCall
    /\ mr = NoMergeReader
    /\ es = NoEngineState
    /\ rec = NoRecorder
    /\ ce = NoConditionEngine
    /\ fe = NoFileEngine
    /\ xe \in {NewExtraction(entries) : entries \in SeqsUpTo(ZipEntries, MaxEntries)}

NextExtraction ==
    \/ ExtractionOpen
    \/ ExtractionEntry
    \/ ExtractionWrite
    \/ CancelExtraction

SpecExtraction == InitExtraction /\ [][NextExtraction]_vars

(***************************************************************************)
(* The reentrant locker on its own: one process calls Lock, TryLock and    *)
(* Unlock on one reentrantlock.Mutex (as reentrantlock's TestLock does,    *)
(* every Unlock pairing an earlier Lock), while another process may own    *)
(* the underlying OS mutex whenever this one does not.                     *)
(***************************************************************************)
\* lock.Lock(): returns once the OS mutex could be taken (it blocks while
\* another process owns it).
LockCall ==
    /\ Len(calls) < MaxCalls
    /\ lock.counter = 0 => ~osOther
    /\ lock' = MutexLock(lock)
    /\ calls' = Append(calls, "lock")
    /\ UNCHANGED <<osOther, flowVars, downloadVars, restVars>>

\* lock.TryLock()
TryLockCall ==
    /\ Len(calls) < MaxCalls
    /\ LET r == MutexTryLock(lock, ~osOther)
       IN /\ lock' = r[2]
          /\ calls' = Append(calls, IF r[1] THEN "trylock" ELSE "tryfail")
    /\ UNCHANGED <<osOther, flowVars, downloadVars, restVars>>

\* lock.Unlock(), which pairs an earlier Lock or successful TryLock.
UnlockCall ==
    /\ Len(calls) < MaxCalls
    /\ lock.counter > 0
    /\ lock' = MutexUnlock(lock)
    /\ calls' = Append(calls, "unlock")
    /\ UNCHANGED <<osOther, flowVars, downloadVars, restVars>>

\* Another process takes the OS mutex while this one does not own it.
OtherTakes ==
    /\ ~lock.held
    /\ ~osOther
    /\ osOther' = TRUE
    /\ UNCHANGED <<lock, calls, flowVars, downloadVars, restVars>>

OtherReleases ==
    /\ osOther
    /\ osOther' = FALSE
    /\ UNCHANGED <<lock, calls, flowVars, downloadVars, restVars>>

InitLock ==
    /\ EngineOff
    /\ InitRest

NextLock ==
    \/ LockCall
    \/ TryLockCall
    \/ UnlockCall
    \/ OtherTakes
    \/ OtherReleases

SpecLock == InitLock /\ [][NextLock]_vars

(***************************************************************************)
(* A LockGroup of the lock manager on its own: group.Lock() on a group of  *)
(* up to MaxGroup members over three locks, followed, when it succeeded,   *)
(* by the group.Unlock() that its caller defers.  args holds the group,    *)
(* the lockers as they are before the call and the answers of the OS       *)
(* mutexes; ret holds what the calls did.                                  *)
(***************************************************************************)
GroupLockIDs == {"L1", "L2", "L3"}

\* A locker that a group of an enclosing flow has locked.
HeldLocker == MutexLock(NewLocker)

\* The lockers before the call and the answers of their OS mutexes: a
\* mutex this process owns is not owned by another process.
GroupTables ==
    {t \in [lk : [GroupLockIDs -> {NewLocker, HeldLocker}], osFree : [GroupLockIDs -> BOOLEAN]] :
        \A l \in GroupLockIDs : t.lk[l].held => t.osFree[l]}

\* group.Lock()
GroupLockCall ==
    /\ args.fn = "LockGroup.Lock"
    /\ ret = NoCall
    /\ LET r == GroupLock(args.members, args.lk, args.osFree)
       IN ret' = [pc |-> IF r.ok THEN "locked" ELSE "failed", ok |-> r.ok,
                  failed |-> r.failed, log |-> r.log, lk |-> r.lk,
                  unlocked |-> <<>>, final |-> r.lk]
    /\ UNCHANGED <<flowVars, lockVars, downloadVars, commandVars, args, mr, es, rec, ce, fe, xe>>

\* The deferred group.Unlock() of a group that was locked.
GroupUnlockCall ==
    /\ args.fn = "LockGroup.Lock"
    /\ ret # NoCall
    /\ ret.pc = "locked"
    /\ LET un == GroupUnlock(args.members, ret.lk)
       IN ret' = [ret EXCEPT !.pc = "unlocked", !.unlocked = un.log, !.final = un.lk]
    /\ UNCHANGED <<flowVars, lockVars, downloadVars, commandVars, args, mr, es, rec, ce, fe, xe>>

InitLockGroup ==
    /\ EngineOff
    /\ InitLocker
    /\ InitNoDownload
    /\ InitNoCommand
    /\ mr = NoMergeReader
    /\ es = NoEngineState
    /\ rec = NoRecorder
    /\ ce = NoConditionEngine
    /\ fe = NoFileEngine
    /\ xe = NoExtraction
    /\ \E members \in SeqsUpTo(GroupLockIDs, MaxGroup), t \in GroupTables :
          args = [fn |-> "LockGroup.Lock", members |-> members, lk |-> t.lk,
                  osFree |-> t.osFree]
    /\ ret = NoCall

NextLockGroup ==
    \/ GroupLockCall
    \/ GroupUnlockCall

SpecLockGroup == InitLockGroup /\ [][NextLockGroup]_vars

(***************************************************************************)
(* The download-and-verify step of the package pipeline                    *)
(* (lbengine/file.go, downloadEngine.DownloadAndVerifyPackage) with the    *)
(* file verifier (lbengine/fileverifier.go) and the comparison of file     *)
(* attributes (lbdeploy/fileattributes.go).                                *)
(*                                                                         *)
(* File content is a sequence of bytes.  A hash is computed as the code    *)
(* computes it, by absorbing the bytes one after another into a state;     *)
(* the state is a number that tells any two contents apart, as a           *)
(* cryptographic hash does for all practical purposes.                     *)
(***************************************************************************)
Bytes == {0, 1}

Contents == SeqsUpTo(Bytes, MaxSize)

SHA3_256 == "sha3-256"

\* hash.Write(p) on a hash state h.
RECURSIVE HashWrite(_, _)
HashWrite(h, p) == IF p = <<>> THEN h ELSE HashWrite(h * 3 + p[1] + 1, Tail(p))

\* sha3.New256(), and hash.Reset()
HashNew == 0

\* The SHA3-256 sum of a whole content, as a package author computes it.
Sum(content) == HashWrite(HashNew, content)

\* filehash.Map.ToList(): the entries ordered by type.  SHA3_256 is the one
\* type FileAttributes.Validate and NewFileVerifier accept.
ToList(hashes) ==
    IF SHA3_256 \in DOMAIN hashes
    THEN <<[type |-> SHA3_256, value |-> hashes[SHA3_256]]>>
    ELSE <<>>

FileAttributes(size, hashes) == [size |-> size, hashes |-> hashes]

NoHashes == [t \in {} |-> 0]

\* lbdeploy.EqualFileAttributes
EqualFileAttributes(a, b) ==
    IF a.size # b.size
    THEN FALSE
    ELSE ToList(a.hashes) = ToList(b.hashes)

\* NewFileVerifier(types...)
NewFileVerifier(types) == [size |-> 0, hashes |-> [t \in types |-> HashNew]]

\* FileVerifier.Write(p)
VerifierWrite(v, p) ==
    [size |-> v.size + Len(p), hashes |-> [t \in DOMAIN v.hashes |-> HashWrite(v.hashes[t], p)]]

\* FileVerifier.Reset()
VerifierReset(v) == [size |-> 0, hashes |-> [t \in DOMAIN v.hashes |-> HashNew]]

\* FileVerifier.State()
VerifierState(v) == FileAttributes(v.size, v.hashes)

FileWriteAtStart(file, pos, p) == p \o SubSeq(file, Len(p) + 1, Len(file))

\* file.Write(p) at file position pos.
FileWrite(file, pos, p) ==
    SubSeq(file, 1, pos) \o p \o SubSeq(file, pos + Len(p) + 1, Len(file))

\* Events of the download engine.
DlEv(type, source, offset, reason, downloaded, fileSize, err, actual) ==
    [type |-> type, source |-> source, offset |-> offset, reason |-> reason,
     downloaded |-> downloaded, fileSize |-> fileSize, err |-> err, actual |-> actual]

NoAttributes == FileAttributes(0, NoHashes)

FileVerification(source, actual) ==
    DlEv("FileVerification", source, 0, "", 0, 0, Nil, actual)

DownloadReset(source, reason) ==
    DlEv("DownloadReset", source, 0, reason, 0, 0, Nil, NoAttributes)

DownloadStarted(source, offset) ==
    DlEv("DownloadStarted", source, offset, "", 0, 0, Nil, NoAttributes)

DownloadStopped(source, downloaded, fileSize, err) ==
    DlEv("DownloadStopped", source, 0, "", downloaded, fileSize, err, NoAttributes)

\* lbdeployevent.DownloadResetReason
ExistingFileTooLarge == "existing-file-too-large"
ExistingFileVerificationFailed == "existing-file-verification-failed"
HTTPServerDoesNotSupportResume == "http-server-does-not-support-resume"
DownloadedFileVerificationFailed == "downloaded-file-verification-failed"

\* PackageSource{}: no source.
NoSource == 0

\* The call, before its first statement, on a staging file with content file.
NewDownload(file) ==
    [pc |-> "start", file0 |-> file, file |-> file, pos |-> 0,
     verifier |-> NewFileVerifier({}), attempt |-> 0, src |-> 0, errs |-> <<>>,
     offset |-> 0, downloaded |-> 0, body |-> <<>>, ctxAtRead |-> Nil, result |-> Nil]

\* DownloadAndVerifyPackage returns err.
DownloadReturn(d, err) == [d EXCEPT !.pc = "done", !.result = err]

ResetFileDownloadKeepsContent(d) == [d EXCEPT !.verifier = VerifierReset(d.verifier)]

\* resetFileDownload: seek to the start, truncate, reset the verifier.
ResetFileDownload(d) ==
    [d EXCEPT !.file = <<>>, !.pos = 0, !.verifier = VerifierReset(d.verifier)]

\* file.go:466-471: without a source the call fails, else the first attempt
\* starts with the first source.
FirstAttempt(d) ==
    IF pkg.sources = 0
    THEN DownloadReturn(d, Err("no sources were provided for the package", <<>>))
    ELSE [d EXCEPT !.pc = "request", !.attempt = 0, !.src = 1, !.errs = <<>>]

ExistingCompleteOnlyWhenLarger(existing, expected) == existing.size > expected.size

\* file.go:434: the existing content holds the expected number of bytes, or
\* more.
ExistingComplete(existing, expected) == existing.size >= expected.size

\* file.go:412-471: the verifier, the existing content, and the decision to
\* finish, to start over or to resume.  The content is read through a
\* reader that fails once the context is cancelled.
DownloadStart ==
    /\ dl.pc = "start"
    /\ LET expected == pkg.expected
           d0       == [dl EXCEPT !.verifier = NewFileVerifier(DOMAIN expected.hashes)]
           d1       == [d0 EXCEPT !.verifier = VerifierWrite(d0.verifier, dl.file),
                                  !.pos = Len(dl.file), !.ctxAtRead = CtxErrNow]
           existing == VerifierState(d1.verifier)
           reason   == IF existing.size > expected.size
                       THEN ExistingFileTooLarge
                       ELSE ExistingFileVerificationFailed
       IN IF DOMAIN d0.verifier.hashes = {}
          THEN /\ dl' = DownloadReturn(d0,
                          Err("packages must provide at least one file hash for verification", <<>>))
               /\ events' = events
          ELSE IF CtxErrNow # Nil
          THEN /\ dl' = DownloadReturn([d0 EXCEPT !.ctxAtRead = CtxErrNow],
                          Wrap("failed to verify existing file content", CtxErrNow))
               /\ events' = events
          ELSE IF ExistingComplete(existing, expected)
          THEN IF EqualFileAttributes(expected, existing)
               THEN /\ dl' = DownloadReturn(d1, Nil)
                    /\ events' = Append(events, FileVerification(NoSource, existing))
               ELSE /\ dl' = FirstAttempt(ResetFileDownload(d1))
                    /\ events' = events \o <<FileVerification(NoSource, existing),
                                             DownloadReset(NoSource, reason)>>
          ELSE /\ dl' = FirstAttempt(d1)
               /\ events' = events
    /\ UNCHANGED <<dep, phase, stack, activeFlows, created, lk, cancelled, result,
                   nextInv, lastLock, lastReturn>>
    /\ UNCHANGED <<lockVars, pkg, srv, requests, restVars>>

AfterSourcesThreePasses(d, source) ==
    LET actual == VerifierState(d.verifier)
    IN IF JoinErrs(d.errs) # Nil
       THEN [dl |-> DownloadReturn(d, JoinErrs(d.errs)), evs |-> <<>>]
       ELSE IF EqualFileAttributes(pkg.expected, actual)
       THEN [dl |-> DownloadReturn(d, Nil), evs |-> <<FileVerification(source, actual)>>]
       ELSE IF d.attempt < 2
       THEN [dl |-> [ResetFileDownload(d) EXCEPT !.attempt = @ + 1, !.src = 1, !.errs = <<>>,
                                                 !.pc = "request"],
             evs |-> <<FileVerification(source, actual),
                       DownloadReset(source, DownloadedFileVerificationFailed)>>]
       ELSE [dl |-> DownloadReturn(d,
                      Err("the downloaded package did not pass its file verification checks", <<>>)),
             evs |-> <<FileVerification(source, actual)>>]

\* file.go:486-525, after the pass over the sources: any source error ends
\* the call; else the content is verified, and a first failed verification
\* starts the second attempt on an empty file.
AfterSources(d, source) ==
    LET actual == VerifierState(d.verifier)
    IN IF JoinErrs(d.errs) # Nil
       THEN [dl |-> DownloadReturn(d, JoinErrs(d.errs)), evs |-> <<>>]
       ELSE IF EqualFileAttributes(pkg.expected, actual)
       THEN [dl |-> DownloadReturn(d, Nil), evs |-> <<FileVerification(source, actual)>>]
       ELSE IF d.attempt = 0
       THEN [dl |-> [ResetFileDownload(d) EXCEPT !.attempt = 1, !.src = 1, !.errs = <<>>,
                                                 !.pc = "request"],
             evs |-> <<FileVerification(source, actual),
                       DownloadReset(source, DownloadedFileVerificationFailed)>>]
       ELSE [dl |-> DownloadReturn(d,
                      Err("the downloaded package did not pass its file verification checks", <<>>)),
             evs |-> <<FileVerification(source, actual)>>]

\* file.go:476-484: downloadPackageFromSource returned err for the candidate
\* d.src.  nil ends the pass over the sources; an error is kept and the next
\* candidate is tried.
SourceReturned(d, err) ==
    IF err = Nil
    THEN AfterSources(d, d.src)
    ELSE LET d1 == [d EXCEPT !.errs = Append(@, err)]
         IN IF d.src < pkg.sources
            THEN [dl |-> [d1 EXCEPT !.src = @ + 1, !.pc = "request"], evs |-> <<>>]
            ELSE AfterSources(d1, NoSource)

\* What the server of a source answers to a GET with a Range offset: no
\* answer at all, a status that is neither 200 nor 206, 200 with the whole
\* content, or 206 with the content from the offset on.  A request made
\* under a cancelled context gets no answer.
Responses(offset) ==
    {[status |-> 0, body |-> <<>>]}
      \cup (IF cancelled THEN {}
            ELSE {[status |-> 404, body |-> <<>>], [status |-> 200, body |-> srv]}
                   \cup (IF offset > 0 /\ offset < Len(srv)
                         THEN {[status |-> 206, body |-> SubSeq(srv, offset + 1, Len(srv))]}
                         ELSE {}))

\* downloadPackageFromSource, file.go:528-581: the request, the status of
\* the response and the start of the transfer.
DownloadRequest ==
    /\ dl.pc = "request"
    /\ LET offset == dl.verifier.size
       IN \E resp \in Responses(offset) :
               LET failed  == IF resp.status = 0
                              THEN IF cancelled THEN Wrap("request failed", CtxErr)
                                   ELSE Err("request failed", <<>>)
                              ELSE Err("the server returned an unexpected status code", <<>>)
                   restart == resp.status = 200 /\ offset > 0
                   d1      == IF restart THEN ResetFileDownload(dl) ELSE dl
                   off     == IF restart THEN 0 ELSE offset
                   r       == SourceReturned(dl, failed)
               IN /\ requests' = Append(requests, [source |-> dl.src, range |-> offset,
                                                    status |-> resp.status])
                  /\ IF resp.status \notin {200, 206}
                     THEN /\ dl' = r.dl
                          /\ events' = events \o r.evs
                     ELSE /\ dl' = [d1 EXCEPT !.pc = "stream", !.offset = off, !.downloaded = 0,
                                              !.body = resp.body]
                          /\ events' = events
                                 \o (IF restart
                                     THEN <<DownloadReset(dl.src, HTTPServerDoesNotSupportResume)>>
                                     ELSE <<>>)
                                 \o <<DownloadStarted(dl.src, off)>>
    /\ UNCHANGED <<dep, phase, stack, activeFlows, created, lk, cancelled, result,
                   nextInv, lastLock, lastReturn>>
    /\ UNCHANGED <<lockVars, pkg, srv, restVars>>

\* downloadPackageFromSource, file.go:586-630: one turn of the transfer
\* loop.  The loop stops on a cancelled context, on the end of the body or
\* on a failed read; otherwise the bytes read go to the file and to the
\* verifier.
DownloadRead ==
    /\ dl.pc = "stream"
    /\ \E n \in 0..Len(dl.body), readErr \in {Nil, Err("unexpected EOF", <<>>)} :
          LET chunk   == SubSeq(dl.body, 1, n)
              d1      == [dl EXCEPT !.file = FileWrite(dl.file, dl.pos, chunk),
                                    !.pos = @ + n,
                                    !.verifier = VerifierWrite(@, chunk),
                                    !.downloaded = @ + n,
                                    !.body = SubSeq(dl.body, n + 1, Len(dl.body))]
              stop(d, err) ==
                  LET r == SourceReturned(d, err)
                  IN /\ dl' = r.dl
                     /\ events' = events
                            \o <<DownloadStopped(d.src, d.downloaded, d.offset + d.downloaded, err)>>
                            \o r.evs
          IN IF CtxErrNow # Nil
             THEN n = 0 /\ readErr = Nil /\ stop(dl, CtxErrNow)
             ELSE IF readErr # Nil
             THEN stop(d1, readErr)
             ELSE IF n = 0
             THEN Len(dl.body) = 0 /\ stop(dl, Nil)
             ELSE dl' = d1 /\ events' = events
    /\ UNCHANGED <<dep, phase, stack, activeFlows, created, lk, cancelled, result,
                   nextInv, lastLock, lastReturn>>
    /\ UNCHANGED <<lockVars, pkg, srv, requests, restVars>>

\* Packages whose attributes describe the content want: with its SHA3-256
\* sum, or with no hash at all (FileAttributes.Validate accepts both).
Packages(want) ==
    {[expected |-> FileAttributes(Len(want), h), sources |-> n] :
        h \in {NoHashes, [t \in {SHA3_256} |-> Sum(want)]}, n \in 0..MaxSources}

\* Another content of the same length (of length one for the empty one).
Altered(content) ==
    IF content = <<>> THEN <<1>> ELSE [content EXCEPT ![Len(content)] = 1 - @]

\* A staging file of any content, up to one byte longer than any package;
\* the sources serve the content the package describes, or another one.
InitDownload ==
    /\ EngineOff
    /\ InitLocker
    /\ InitNoCommand
    /\ InitNoCall
    /\ mr = NoMergeReader
    /\ es = NoEngineState
    /\ rec = NoRecorder
    /\ ce = NoConditionEngine
    /\ fe = NoFileEngine
    /\ xe = NoExtraction
    /\ \E want \in Contents :
          /\ pkg \in Packages(want)
          /\ srv \in {want, Altered(want)}
    /\ \E file \in SeqsUpTo(Bytes, MaxSize + 1) : dl = NewDownload(file)
    /\ requests = <<>>

NextDownload ==
    \/ DownloadStart
    \/ DownloadRequest
    \/ DownloadRead
    \/ Cancel

SpecDownload == InitDownload /\ [][NextDownload]_vars

(***************************************************************************)
(* The invoke-command action (lbengine action engine, invokeCommand) and   *)
(* the command engine (lbengine/command.go): the evaluation of the         *)
(* application changes, the decision to skip, the child process, the       *)
(* interpretation of its exit code and the summary of the changes.         *)
(***************************************************************************)
CommandTypeExe == "exe"
CommandTypeMSIInstall == "msi-install"
CommandTypeMSIUpdate == "msi-update"
CommandTypeMSIUninstall == "msi-uninstall"
CommandTypeMSIUninstallProductCode == "msi-uninstall-product-code"

CommandTypes == {CommandTypeExe, CommandTypeMSIInstall, CommandTypeMSIUpdate,
                 CommandTypeMSIUninstall, CommandTypeMSIUninstallProductCode}

\* CommandType.IsMSI
IsMSI(t) == t \in {CommandTypeMSIInstall, CommandTypeMSIUpdate, CommandTypeMSIUninstall,
                   CommandTypeMSIUninstallProductCode}

\* msiresult.UnknownProduct
UnknownProduct == 1605

\* The exit codes a child process ends with in this model.
ExitCodes == {0, 1, 1603, UnknownProduct, 3010}

\* msiresult.InfoMap, the catalog of well-known msiexec exit codes: code ->
\* ok.  Success and the two reboot codes are ok.
InfoMap == [c \in {0, 1603, UnknownProduct, 3010} |-> c \in {0, 3010}]

\* A *exec.ExitError of a process that exited with a code, or that did not
\* exit (it was killed); and an msiresult.ExitCode used as an error.
ExitError(code, exited) ==
    [kind |-> "exec.ExitError", of |-> <<>>, code |-> code, exited |-> exited]

MsiExitCode(code) == [kind |-> "msiresult.ExitCode", of |-> <<>>, code |-> code]

\* AppList.Difference
Difference(list, other) ==
    SelectSeq(list, LAMBDA a : \A n \in 1..Len(other) : other[n] # a)

\* AppEngine.InstalledApps and AppEngine.MissingApps on a system where the
\* applications of inst are installed.
InstalledApps(list, inst) == SelectSeq(list, LAMBDA a : a \in inst)

MissingApps(list, inst) == SelectSeq(list, LAMBDA a : a \notin inst)

\* AppEngine.EvaluateAppChanges
EvaluateAppChanges(installs, uninstalls, inst) ==
    [alreadyInstalled   |-> InstalledApps(installs, inst),
     alreadyUninstalled |-> MissingApps(uninstalls, inst),
     toInstall          |-> Difference(installs, InstalledApps(installs, inst)),
     toUninstall        |-> Difference(uninstalls, MissingApps(uninstalls, inst))]

\* AppEvaluation.ActionsNeeded
ActionsNeeded(e) == Len(e.toInstall) > 0 \/ Len(e.toUninstall) > 0

\* AppEngine.SummarizeAppChanges
SummarizeAppChanges(e, inst) ==
    [installed           |-> Difference(e.toInstall, MissingApps(e.toInstall, inst)),
     uninstalled         |-> Difference(e.toUninstall, InstalledApps(e.toUninstall, inst)),
     stillNotInstalled   |-> MissingApps(e.toInstall, inst),
     stillNotUninstalled |-> InstalledApps(e.toUninstall, inst)]

NoSummary ==
    [installed |-> <<>>, uninstalled |-> <<>>, stillNotInstalled |-> <<>>,
     stillNotUninstalled |-> <<>>]

SummaryErrUninstallsOnly(sum) ==
    IF Len(sum.stillNotUninstalled) > 0
    THEN Err("the following applications were not uninstalled properly", <<>>)
    ELSE Nil

\* AppSummary.Err
SummaryErr(sum) ==
    IF Len(sum.stillNotInstalled) > 0 /\ Len(sum.stillNotUninstalled) > 0
    THEN Err("some applications were not installed and some were not uninstalled", <<>>)
    ELSE IF Len(sum.stillNotInstalled) > 0
    THEN Err("the following applications were not installed properly", <<>>)
    ELSE IF Len(sum.stillNotUninstalled) > 0
    THEN Err("the following applications were not uninstalled properly", <<>>)
    ELSE Nil

ShouldSkipWhenForced(def, apps, force, actionForce) ==
    /\ Len(def.installs) > 0 \/ Len(def.uninstalls) > 0
    /\ ~ActionsNeeded(apps)

\* invokeCommand, the decision to skip: the command declares installs or
\* uninstalls, none is needed, and force is set at neither level.
ShouldSkip(def, apps, force, actionForce) ==
    /\ Len(def.installs) > 0 \/ Len(def.uninstalls) > 0
    /\ ~ActionsNeeded(apps)
    /\ ~force /\ ~actionForce

BuildResultCatalogFirst(def, cmdError) ==
    LET none == [exitCode |-> 0, found |-> FALSE, ok |-> FALSE]
    IN IF cmdError # Nil /\ (cmdError.kind # "exec.ExitError" \/ ~cmdError.exited)
       THEN [result |-> none, err |-> cmdError]
       ELSE LET code == IF cmdError # Nil THEN cmdError.code ELSE 0
            IN IF IsMSI(def.type) /\ code \in DOMAIN InfoMap
               THEN [result |-> [exitCode |-> code, found |-> TRUE, ok |-> InfoMap[code]],
                     err |-> IF InfoMap[code] THEN Nil ELSE MsiExitCode(code)]
               ELSE IF code \in DOMAIN def.exitCodes
               THEN [result |-> [exitCode |-> code, found |-> TRUE, ok |-> def.exitCodes[code]],
                     err |-> IF def.exitCodes[code] THEN Nil ELSE cmdError]
               ELSE [result |-> [none EXCEPT !.exitCode = code], err |-> cmdError]

\* commandEngine.buildResult: the result record and the error left after
\* the exit code was interpreted.  cmdError is what starting and waiting for
\* the child returned.
BuildResult(def, cmdError) ==
    LET none == [exitCode |-> 0, found |-> FALSE, ok |-> FALSE]
    IN IF cmdError # Nil /\ (cmdError.kind # "exec.ExitError" \/ ~cmdError.exited)
       THEN [result |-> none, err |-> cmdError]
       ELSE LET code == IF cmdError # Nil THEN cmdError.code ELSE 0
            IN IF code \in DOMAIN def.exitCodes
               THEN [result |-> [exitCode |-> code, found |-> TRUE, ok |-> def.exitCodes[code]],
                     err |-> IF def.exitCodes[code] THEN Nil ELSE cmdError]
               ELSE IF IsMSI(def.type) /\ code \in DOMAIN InfoMap
               THEN [result |-> [exitCode |-> code, found |-> TRUE, ok |-> InfoMap[code]],
                     err |-> IF InfoMap[code] THEN Nil ELSE MsiExitCode(code)]
               ELSE [result |-> [none EXCEPT !.exitCode = code], err |-> cmdError]

\* commandEngine.invoke, command.go:292-300: on the msi-uninstall types an
\* msiresult.ExitCode error that is UnknownProduct becomes nil.
AlreadyUninstalled(type, err) ==
    IF /\ type \in {CommandTypeMSIUninstall, CommandTypeMSIUninstallProductCode}
       /\ err.kind = "msiresult.ExitCode"
       /\ err.code = UnknownProduct
    THEN Nil
    ELSE err

\* The applications of the deployment.
AppIDs == {"A", "B"}

\* Events of the command engine.
NoResult == [exitCode |-> 0, found |-> FALSE, ok |-> FALSE]

CommandSkipped(apps) ==
    [type |-> "CommandSkipped", apps |-> apps, result |-> NoResult, after |-> NoSummary,
     err |-> Nil]

CommandStarted(apps) ==
    [type |-> "CommandStarted", apps |-> apps, result |-> NoResult, after |-> NoSummary,
     err |-> Nil]

CommandStopped(apps, res, after, err) ==
    [type |-> "CommandStopped", apps |-> apps, result |-> res, after |-> after,
     err |-> err]

NoEvaluation ==
    [alreadyInstalled |-> <<>>, alreadyUninstalled |-> <<>>, toInstall |-> <<>>,
     toUninstall |-> <<>>]

NoChild == [kind |-> "none", code |-> 0]

\* The invoke-command action before its first statement: the command
\* definition and the force flags of the deployment and of the action.
NewCommand(def, force, actionForce) ==
    [pc |-> "evaluate", def |-> def, force |-> force, actionForce |-> actionForce,
     evaluated |-> FALSE, before |-> {}, apps |-> NoEvaluation, queue |-> <<>>,
     child |-> NoChild, cmdErr |-> Nil, err |-> Nil, after |-> NoSummary,
     runs |-> 0, cancelledAt |-> "", result |-> Nil]

\* invokeCommand returns err.
CommandReturn(c, err) == [c EXCEPT !.pc = "done", !.result = err]

InvocationsForDeclaredApps(def, apps) ==
    IF def.type = CommandTypeMSIUninstallProductCode THEN def.uninstalls ELSE <<"">>

\* state.go:425-439: the calls of the command engine an invoke-command
\* action makes: InvokeApp for every application to uninstall when the
\* command works on product codes, else one InvokeStandard.
Invocations(def, apps) ==
    IF def.type = CommandTypeMSIUninstallProductCode THEN apps.toUninstall ELSE <<"">>

\* state.go:384-436: the application changes are evaluated; the command is
\* skipped, or handed to the command engine: once, or once for every
\* application to uninstall when the command works on product codes.
CommandEvaluate ==
    /\ cmd.pc = "evaluate"
    /\ \E fails \in {FALSE} \cup {Len(cmd.def.installs) + Len(cmd.def.uninstalls) > 0} :
          LET apps == EvaluateAppChanges(cmd.def.installs, cmd.def.uninstalls, installed)
              c1   == [cmd EXCEPT !.evaluated = TRUE, !.before = installed, !.apps = apps]
              todo == Invocations(cmd.def, apps)
          IN IF fails
             THEN /\ cmd' = CommandReturn(cmd,
                              Wrap("the evaluation of potential application changes did not succeed",
                                   Err("unable to determine the installation state", <<>>)))
                  /\ events' = events
             ELSE IF ShouldSkip(cmd.def, apps, cmd.force, cmd.actionForce)
             THEN /\ cmd' = CommandReturn(c1, Nil)
                  /\ events' = Append(events, CommandSkipped(apps))
             ELSE IF todo = <<>>
             THEN /\ cmd' = CommandReturn(c1, Nil)
                  /\ events' = events
             ELSE /\ cmd' = [c1 EXCEPT !.pc = "prepare", !.queue = todo]
                  /\ events' = events
    /\ UNCHANGED <<dep, phase, stack, activeFlows, created, lk, cancelled, result,
                   nextInv, lastLock, lastReturn>>
    /\ UNCHANGED <<lockVars, downloadVars, installed, callVars, mr, es, rec, ce, fe, xe>>

\* InvokeStandard or InvokeApp up to the start of the child
\* (command.go:45-77, 128-258): the executable and the working directory
\* may fail to resolve; invoke returns the context's error when it is
\* cancelled, else CommandStarted is recorded.
CommandPrepare ==
    /\ cmd.pc = "prepare"
    /\ \E resolved \in BOOLEAN :
          IF ~resolved
          THEN /\ cmd' = CommandReturn(cmd, Err("the executable could not be resolved", <<>>))
               /\ events' = events
          ELSE IF CtxErrNow # Nil
          THEN /\ cmd' = CommandReturn(cmd, CtxErrNow)
               /\ events' = events
          ELSE /\ cmd' = [cmd EXCEPT !.pc = "running"]
               /\ events' = Append(events, CommandStarted(cmd.apps))
    /\ UNCHANGED <<dep, phase, stack, activeFlows, created, lk, cancelled, result,
                   nextInv, lastLock, lastReturn>>
    /\ UNCHANGED <<lockVars, downloadVars, installed, callVars, mr, es, rec, ce, fe, xe>>

\* What cmd.Start and cmd.Wait return: the child could not be started, it
\* exited with a code, or it ended without exiting (it was killed).  The
\* command is made by exec.CommandContext (command.go:224): Start returns
\* the context's error without starting the child when the context is done
\* ("context done"), and Wait returns the context's error when the child
\* was interrupted for the context and still exited with success
\* ("interrupted").
ChildOutcomes ==
    {[kind |-> "not started", code |-> 0], [kind |-> "killed", code |-> 0],
     [kind |-> "context done", code |-> 0], [kind |-> "interrupted", code |-> 0]}
        \cup {[kind |-> "exited", code |-> c] : c \in ExitCodes}

\* The child did not run.
NotRun(child) == child.kind \in {"not started", "context done"}

CmdError(child, ctx) ==
    IF child.kind = "not started" THEN Err("the command could not be started", <<>>)
    ELSE IF child.kind \in {"context done", "interrupted"} THEN ctx
    ELSE IF child.kind = "killed" THEN ExitError(0, FALSE)
    ELSE IF child.code = 0 THEN Nil
    ELSE ExitError(child.code, TRUE)

\* command.go:266-330: the child runs and may install or uninstall
\* applications; its exit code is interpreted, the application changes are
\* summarized (which may fail), and CommandStopped is recorded.
CommandRun ==
    /\ cmd.pc = "running"
    /\ \E child \in ChildOutcomes, inst \in SUBSET AppIDs, summarized \in BOOLEAN :
          LET br     == BuildResult(cmd.def, CmdError(child, CtxErrNow))
              cmdErr == AlreadyUninstalled(cmd.def.type, br.err)
              after  == IF summarized THEN SummarizeAppChanges(cmd.apps, inst) ELSE NoSummary
              err    == IF ~summarized /\ cmdErr = Nil
                        THEN Wrap("failed to determine the state of installed applications",
                                  Err("unable to determine the installation state", <<>>))
                        ELSE cmdErr
          IN /\ child.kind \in {"context done", "interrupted"} => cancelled
             /\ NotRun(child) => inst = installed
             /\ installed' = inst
             /\ cmd' = [cmd EXCEPT !.pc = "quiesce", !.child = child, !.cmdErr = cmdErr,
                                   !.err = err, !.after = after, !.runs = @ + 1]
             /\ events' = Append(events, CommandStopped(cmd.apps, br.result, after, err))
    /\ UNCHANGED <<dep, phase, stack, activeFlows, created, lk, cancelled, result,
                   nextInv, lastLock, lastReturn>>
    /\ UNCHANGED <<lockVars, downloadVars, callVars, mr, es, rec, ce, fe, xe>>

\* command.go:341-355 and the caller's loop (state.go:428-439): the wait for
\* the file system to settle ends, by the timer or by cancellation; invoke
\* returns the command's error, else the summary's; after a nil result the
\* next application of a product-code command is handled.
CommandQuiesce ==
    /\ cmd.pc = "quiesce"
    /\ LET err == IF cmd.err # Nil THEN cmd.err ELSE SummaryErr(cmd.after)
       IN IF err = Nil /\ Len(cmd.queue) > 1
          THEN cmd' = [cmd EXCEPT !.pc = "prepare", !.queue = Tail(@)]
          ELSE cmd' = CommandReturn([cmd EXCEPT !.queue = Tail(@)], err)
    /\ UNCHANGED <<dep, phase, stack, activeFlows, created, lk, cancelled, events, result,
                   nextInv, lastLock, lastReturn>>
    /\ UNCHANGED <<lockVars, downloadVars, installed, callVars, mr, es, rec, ce, fe, xe>>


\* The commands of the model: a command may install "A" and uninstall "B",
\* and may give its own meaning to exit code 1, to UnknownProduct or to 3010.
Commands ==
    {[type |-> t, installs |-> i, uninstalls |-> u, exitCodes |-> x] :
        t \in CommandTypes, i \in SeqsUpTo({"A"}, MaxApps), u \in SeqsUpTo({"B"}, MaxApps),
        x \in {[c \in {} |-> TRUE]}
                \cup {[c \in {code} |-> ok] : code \in {1, UnknownProduct, 3010}, ok \in BOOLEAN}}

InitCommand ==
    /\ EngineOff
    /\ InitLocker
    /\ InitNoDownload
    /\ InitNoCall
    /\ mr = NoMergeReader
    /\ es = NoEngineState
    /\ rec = NoRecorder
    /\ ce = NoConditionEngine
    /\ fe = NoFileEngine
    /\ xe = NoExtraction
    /\ installed \in SUBSET AppIDs
    /\ \E def \in Commands, force \in BOOLEAN, actionForce \in BOOLEAN :
          cmd = NewCommand(def, force, actionForce)

\* Cancellation of the context while the command is handled; cancelledAt is
\* a ghost, the position of the invocation at that moment.
CancelCommand ==
    /\ cmd.pc # "done"
    /\ ~cancelled
    /\ cancelled' = TRUE
    /\ cmd' = [cmd EXCEPT !.cancelledAt = cmd.pc]
    /\ UNCHANGED <<dep, phase, stack, activeFlows, created, lk, events, result,
                   nextInv, lastLock, lastReturn>>
    /\ UNCHANGED <<lockVars, downloadVars, installed, callVars, mr, es, rec, ce, fe, xe>>

NextCommand ==
    \/ CommandEvaluate
    \/ CommandPrepare
    \/ CommandRun
    \/ CommandQuiesce
    \/ CancelCommand

SpecCommand == InitCommand /\ [][NextCommand]_vars

(***************************************************************************)
(* The per-invocation engine state: lbengine/deployment.go, package.go and *)
(* the engineState of lbengine.  The steps of the flows are reduced to     *)
(* what they do to the state: flows are entered and left, locks are        *)
(* created, package and archive commands fill the caches.  The field open  *)
(* is a ghost: the handles that were opened and not closed.                *)
(***************************************************************************)
PackageIDs == {"P", "Q"}

Handle(kind, id) == <<kind, id>>

(***************************************************************************)
(* lbdeploy validation: Deployment.Validate, Deployment.validateCondition, *)
(* Package.Validate and Resources.Validate.  A condition is a record       *)
(* [type, subject, negated, any, all]; a document that is validated holds  *)
(* its id, its conditions, the ids of its resources by kind and its        *)
(* packages.                                                               *)
(***************************************************************************)
ConditionSubcondition == "condition"
ConditionProcessIsRunning == "resource.process:running"
ConditionMutexExists == "resource.mutex:exists"
ConditionRegistryKeyExists == "resource.registry.key:exists"
ConditionRegistryValueExists == "resource.registry.value:exists"
ConditionRegistryValueComparison == "resource.registry.value:comparison"
ConditionDirectoryExists == "resource.file-system.directory:exists"
ConditionFileExists == "resource.file-system.file:exists"

Condition(type, subject, negated, any, all) ==
    [type |-> type, subject |-> subject, negated |-> negated, any |-> any, all |-> all]

\* lbdeploy.ConditionError: the element of the condition that failed ("self",
\* "any" or "all"), the index of the subcondition, and the error it wraps.
ConditionError(element, index, err) == Err("condition", <<element, index, err>>)

conditionSelfError(err) == ConditionError("self", 0, err)

\* The ids a condition of the given type may refer to.
SubjectsOf(d, type) ==
    CASE type = ConditionSubcondition -> DOMAIN d.conditions
      [] type = ConditionProcessIsRunning -> d.processes
      [] type = ConditionMutexExists -> d.mutexes
      [] type = ConditionRegistryKeyExists -> d.keys
      [] type \in {ConditionRegistryValueExists, ConditionRegistryValueComparison} -> d.values
      [] type = ConditionDirectoryExists -> d.directories
      [] type = ConditionFileExists -> d.files

ConditionTypes ==
    {ConditionSubcondition, ConditionProcessIsRunning, ConditionMutexExists,
     ConditionRegistryKeyExists, ConditionRegistryValueExists,
     ConditionRegistryValueComparison, ConditionDirectoryExists, ConditionFileExists}

\* The index of the first error of a list of errors, 0 when all are nil.
FirstError(errs) ==
    IF \A i \in 1..Len(errs) : errs[i] = Nil THEN 0
    ELSE CHOOSE i \in 1..Len(errs) : errs[i] # Nil /\ \A j \in 1..(i - 1) : errs[j] = Nil

RECURSIVE validateCondition(_, _)
validateCondition(d, condition) ==
    LET hasType == condition.type # ""
        hasAny == Len(condition.any) > 0
        hasAll == Len(condition.all) > 0
        fields == (IF hasType THEN 1 ELSE 0) + (IF hasAny THEN 1 ELSE 0)
                      + (IF hasAll THEN 1 ELSE 0)
        anyErrs == [i \in 1..Len(condition.any) |-> validateCondition(d, condition.any[i])]
        allErrs == [i \in 1..Len(condition.all) |-> validateCondition(d, condition.all[i])]
    IN  IF fields = 0
        THEN conditionSelfError(Err("the condition does not specify a type", <<>>))
        ELSE IF fields > 1
        THEN conditionSelfError(Err("mutually exclusive fields are present", <<>>))
        ELSE IF FirstError(anyErrs) # 0
        THEN ConditionError("any", FirstError(anyErrs) - 1, anyErrs[FirstError(anyErrs)])
        ELSE IF FirstError(allErrs) # 0
        THEN ConditionError("all", FirstError(allErrs) - 1, allErrs[FirstError(allErrs)])
        ELSE IF ~hasType THEN Nil
        ELSE IF condition.type \notin ConditionTypes
        THEN conditionSelfError(Err("the condition type is not recognized", <<>>))
        ELSE IF condition.subject = ""
        THEN conditionSelfError(Err("the condition does not provide an ID", <<>>))
        ELSE IF condition.subject \notin SubjectsOf(d, condition.type)
        THEN conditionSelfError(Err("the condition references an ID that is not defined", <<>>))
        ELSE Nil

\* Deployment.ValidateCondition(id)
ValidateCondition(d, id) ==
    IF id \notin DOMAIN d.conditions
    THEN Err("the condition does not exist", <<>>)
    ELSE IF validateCondition(d, d.conditions[id]) # Nil
    THEN Wrap("the condition or one of its subconditions is not valid",
              validateCondition(d, d.conditions[id]))
    ELSE Nil

\* Deployment.Validate: the id, then every condition; the error of one of
\* the conditions that fail (the map is ranged over in no fixed order).
DeploymentValidate(d) ==
    IF d.id = "" THEN {Err("a deployment ID is missing", <<>>)}
    ELSE IF \A id \in DOMAIN d.conditions : ValidateCondition(d, id) = Nil THEN {Nil}
    ELSE {ValidateCondition(d, id) : id \in DOMAIN d.conditions} \ {Nil}

\* Package.Validate: the type and the format, the sources, the attributes,
\* the executables of the commands.
PackageValidate(p) ==
    IF p.type # "archive" THEN Err("the package type is not recognized", <<>>)
    ELSE IF p.format # "zip" THEN Err("the package format is not a recognized format", <<>>)
    ELSE IF \E i \in 1..Len(p.sources) : p.sources[i] # "http"
    THEN Err("package source", <<>>)
    ELSE IF p.size < 0 THEN Err("package file attributes", <<>>)
    ELSE IF \E e \in p.executables : e # "" /\ e \notin p.files
    THEN Err("package command", <<>>)
    ELSE Nil

\* Resources.Validate: every package.
ResourcesValidate(d) ==
    IF \A id \in DOMAIN d.packages : PackageValidate(d.packages[id]) = Nil THEN {Nil}
    ELSE {PackageValidate(d.packages[id]) : id \in DOMAIN d.packages} \ {Nil}

Package(type, format, sources, size, files, executables) ==
    [type |-> type, format |-> format, sources |-> sources, size |-> size,
     files |-> files, executables |-> executables]

\* The packages of the documents: a well-formed archive and packages with
\* one defect each.
ValidatedPackages ==
    {Package("archive", "zip", <<"http">>, MaxSize, {"setup"}, {"setup"}),
     Package("installer", "", <<"http">>, MaxSize, {}, {}),
     Package("archive", "tar", <<"http">>, MaxSize, {}, {}),
     Package("archive", "zip", <<"ftp">>, MaxSize, {}, {}),
     Package("archive", "zip", <<>>, -1, {}, {}),
     Package("archive", "zip", <<>>, 0, {}, {"setup"})}

\* The conditions of the documents: leaves that are well formed, leaves with
\* one defect each, and compounds over them.
ValidatedLeaves ==
    {Condition(ConditionFileExists, "f", FALSE, <<>>, <<>>),
     Condition(ConditionSubcondition, "c1", TRUE, <<>>, <<>>),
     Condition("", "", FALSE, <<>>, <<>>),
     Condition("unknown", "f", FALSE, <<>>, <<>>),
     Condition(ConditionFileExists, "", FALSE, <<>>, <<>>),
     Condition(ConditionDirectoryExists, "f", FALSE, <<>>, <<>>)}

ValidatedConditions ==
    ValidatedLeaves
      \cup {Condition("", "", FALSE, <<a, b>>, <<>>) : a, b \in ValidatedLeaves}
      \cup {Condition("", "", FALSE, <<>>, <<a>>) : a \in ValidatedLeaves}
      \cup {Condition(ConditionFileExists, "f", FALSE, <<a>>, <<>>) : a \in ValidatedLeaves}

ValidatedDeployments ==
    {[id |-> id, conditions |-> [c \in ConditionIDs |-> cond],
      processes |-> {}, mutexes |-> {}, keys |-> {}, values |-> {},
      directories |-> {}, files |-> {"f"},
      packages |-> [p \in ps |-> pk]] :
        id \in {"", "d"}, cond \in ValidatedConditions,
        ps \in SUBSET {"P"}, pk \in ValidatedPackages}

\* A call of the package engine, kept as a ghost: the operation, the package,
\* the flow it ran in, whether the package was found in the cache, the types
\* of the events recorded before the command engine was reached, the handles
\* opened and closed, whether the command engine was reached, and the error
\* of the preparation.
PackageCall(op, id, flow, cached, emitted, opened, closed, ran, err) ==
    [op |-> op, pkg |-> id, flow |-> flow, cached |-> cached, emitted |-> emitted,
     opened |-> opened, closed |-> closed, ran |-> ran, err |-> err]

NoPackageCall == PackageCall("", "", "", FALSE, {}, {}, {}, FALSE, Nil)

\* verifiedBy and extractedBy are ghosts: for each package the flows whose
\* commands prepared it with success, in order; last is the latest call of
\* the package engine, kept when traced is set.
newEngineState ==
    [pc |-> "idle", activeFlows |-> {}, verifiedPackageFiles |-> {},
     extractedPackages |-> {}, locks |-> {}, frames |-> <<>>, open |-> {},
     err |-> Nil,
     verifiedBy |-> [p \in PackageIDs |-> <<>>],
     extractedBy |-> [p \in PackageIDs |-> <<>>],
     traced |-> FALSE,
     last |-> NoPackageCall]

\* The ghosts are kept in the invocations that are traced.
Traced(s, call) ==
    LET prepared == ~call.cached /\ call.ran
    IN IF ~s.traced THEN s
       ELSE [s EXCEPT !.last = call,
                      !.verifiedBy[call.pkg] =
                          IF call.op = "package" /\ prepared THEN Append(@, call.flow) ELSE @,
                      !.extractedBy[call.pkg] =
                          IF call.op = "archive" /\ prepared THEN Append(@, call.flow) ELSE @]

\* The deferred function of DeploymentEngine.Invoke: the extraction
\* directories are closed and removed, then lockManager.CloseAll closes and
\* removes every lock.
ReleaseResources(s) ==
    [s EXCEPT !.extractedPackages = {},
              !.locks = {},
              !.open = {h \in @ : h[1] \notin {"extraction", "lock"}}]

\* NewDeploymentEngine(dep, opts): the engine of one deployment document with
\* a fresh state.
NewDeploymentEngine(d) == [deployment |-> d] @@ newEngineState

\* DeploymentEngine.Invoke returns: fe.Invoke has returned err, the deferred
\* function runs.
StateReturn(s, err) == [ReleaseResources(s) EXCEPT !.pc = "ended", !.err = err]

\* DeploymentEngine.Invoke up to the invocation of the requested flow: an
\* invalid deployment and an unknown flow return before anything is deferred.
StateInvoke ==
    /\ es.pc = "idle"
    /\ \E err \in DeploymentValidate(es.deployment), found \in BOOLEAN :
          es' = IF err # Nil THEN [es EXCEPT !.pc = "ended", !.err = err]
                ELSE IF ~found THEN [es EXCEPT !.pc = "ended", !.err = Err("flow does not exist", <<>>)]
                ELSE [es EXCEPT !.pc = "invoked"]
    /\ UNCHANGED <<flowVars, lockVars, downloadVars, commandVars, callVars, mr, rec, ce, fe, xe>>

\* The innermost invocation of flowEngine.Invoke is in its action loop: its
\* flow is among the active flows (flow.go:284).
InLoop(s) == s.frames # <<>> /\ Last(s.frames) \in s.activeFlows

\* The innermost invocation of flowEngine.Invoke is before its action loop:
\* past its preconditions and not yet among the active flows.
Entering(s) == s.frames # <<>> /\ Last(s.frames) \notin s.activeFlows

\* The innermost invocation returns err: its frame is left, and the return
\* of the requested flow ends the invocation of the deployment.
StateFlowReturn(s, err) ==
    LET left == [s EXCEPT !.activeFlows = @ \ {Last(s.frames)},
                          !.frames = SubSeq(@, 1, Len(@) - 1)]
    IN IF left.frames = <<>> THEN StateReturn(left, err) ELSE left

\* flowEngine.Invoke of the requested flow or of a flow started by an action
\* of the innermost flow, flow.go:182-246: a flow that is running or whose
\* preconditions fail returns at once, any other goes on to its locks.
StateFlowEnter ==
    /\ es.pc \in {"invoked", "running"}
    /\ es.pc = "running" => InLoop(es)
    /\ \E f \in Flows, proceed \in BOOLEAN :
          es' = IF f \notin es.activeFlows /\ proceed
                THEN [es EXCEPT !.pc = "running", !.frames = Append(@, f)]
                ELSE IF es.frames = <<>>
                THEN StateReturn(es, Err("flow failed", <<>>))
                ELSE es
    /\ es' # es
    /\ UNCHANGED <<flowVars, lockVars, downloadVars, commandVars, callVars, mr, rec, ce, fe, xe>>

\* lockManager.Create for one lock of the flow that is entered (flow.go:249):
\* a lock that is not in the table yet is created and kept.
StateLockCreate ==
    /\ es.pc = "running"
    /\ Entering(es)
    /\ \E l \in LockIDs :
          /\ l \notin es.locks
          /\ es' = [es EXCEPT !.locks = @ \cup {l},
                              !.open = @ \cup {Handle("lock", l)}]
    /\ UNCHANGED <<flowVars, lockVars, downloadVars, commandVars, callVars, mr, rec, ce, fe, xe>>

\* flow.go:249-285: the lock group cannot be prepared or locked and the flow
\* returns, or the flow is added to the active flows until it returns.
StateFlowStart ==
    /\ es.pc = "running"
    /\ Entering(es)
    /\ \E locked \in BOOLEAN :
          es' = IF locked
                THEN [es EXCEPT !.activeFlows = @ \cup {Last(es.frames)}]
                ELSE StateFlowReturn(es, Err("flow failed", <<>>))
    /\ UNCHANGED <<flowVars, lockVars, downloadVars, commandVars, callVars, mr, rec, ce, fe, xe>>

\* The innermost flow returns from its action loop: its deferred removal
\* from the active flows; the return of the requested flow ends the
\* invocation.
StateFlowLeave ==
    /\ es.pc = "running"
    /\ InLoop(es)
    /\ \E err \in {Nil, Err("flow failed", <<>>)} : es' = StateFlowReturn(es, err)
    /\ UNCHANGED <<flowVars, lockVars, downloadVars, commandVars, callVars, mr, rec, ce, fe, xe>>

\* What downloadEngine.DownloadAndVerifyPackage can do (file.go:412-525),
\* as the types of the records it makes and its error.  It returns nil
\* after a FileVerification that matched: of the existing file, or of a
\* download (DownloadStarted and DownloadStopped), which a DownloadReset may
\* have preceded.  It fails before any record (the verifier, the reading of
\* the existing file, no source, a request that fails), after a
\* DownloadReset alone (a 200 to a range request, then a failing reset),
\* after a download that failed, or after a FileVerification that did not
\* match, which a DownloadReset always follows.
DownloadResults ==
    {[evs |-> e, err |-> Nil] :
        e \in {{"FileVerification"},
               {"FileVerification", "DownloadStarted", "DownloadStopped"},
               {"FileVerification", "DownloadReset", "DownloadStarted", "DownloadStopped"}}}
      \cup
    {[evs |-> e, err |-> Err("download failed", <<>>)] :
        e \in {{},
               {"DownloadReset"},
               {"DownloadStarted", "DownloadStopped"},
               {"DownloadReset", "DownloadStarted", "DownloadStopped"},
               {"FileVerification", "DownloadReset"},
               {"FileVerification", "DownloadReset", "DownloadStarted", "DownloadStopped"}}}

\* What extractionEngine.ExtractPackage can do (state.go:64-205): every
\* entry is extracted, of an archive that may have none; the archive cannot
\* be opened; the context is done before the first entry; after records of
\* entries an entry fails on its own, or the context is done, before a later
\* entry (state.go:108-110) or during the write of one (readercontext.go:
\* 28-33), and the context's error is returned.
ExtractionResults ==
    {[evs |-> {"ExtractionStarted", "ExtractedFile", "ExtractionStopped"}, err |-> Nil],
     [evs |-> {"ExtractionStarted", "ExtractionStopped"}, err |-> Nil],
     [evs |-> {}, err |-> Err("stat failed", <<>>)],
     [evs |-> {"ExtractionStarted", "ExtractionStopped"}, err |-> CtxErr],
     [evs |-> {"ExtractionStarted", "ExtractedFile", "ExtractionStopped"}, err |-> CtxErr],
     [evs |-> {"ExtractionStarted", "ExtractedFile", "ExtractionStopped"},
      err |-> Err("write failed", <<>>)]}

AlreadyPreparedNever(cache, p) == FALSE

\* package.go:119 and 197: the lookup of the package in a cache of the
\* engine state.
AlreadyPrepared(cache, p) == p \in cache

\* packageEngine.PreparePackage (package.go:32-56): the package file is
\* opened, the package is downloaded and verified, the file is closed.
PreparePackage ==
    /\ es.pc = "running"
    /\ InLoop(es)
    /\ \E p \in PackageIDs :
          LET flow == Last(es.frames)
              file == Handle("file", p)
          IN \/ es' = Traced(es, PackageCall("prepare", p, flow, FALSE, {}, {}, {}, FALSE,
                                             Err("open failed", <<>>)))
             \/ \E download \in DownloadResults :
                   es' = Traced(es, PackageCall("prepare", p, flow, FALSE, download.evs,
                                                {file}, {file}, FALSE, download.err))
    /\ es' # es
    /\ UNCHANGED <<flowVars, lockVars, downloadVars, commandVars, callVars, mr, rec, ce, fe, xe>>

\* packageEngine.invokePackageCommand (package.go:116-190): a package with
\* a cached staging directory goes to the command engine at once; for any
\* other the directory and the package file are opened and the package is
\* downloaded and verified; the file is closed; the directory is closed
\* again when the package file could not be prepared and cached otherwise.
invokePackageCommand ==
    /\ es.pc = "running"
    /\ InLoop(es)
    /\ \E p \in PackageIDs :
          LET flow == Last(es.frames)
              dir == Handle("staging", p)
              file == Handle("file", p)
              failed == Wrap("failed to prepare package file", Err("open failed", <<>>))
              call(cached, emitted, opened, closed, ran, err) ==
                  PackageCall("package", p, flow, cached, emitted, opened, closed, ran, err)
          IN IF AlreadyPrepared(es.verifiedPackageFiles, p)
             THEN es' = Traced(es, call(TRUE, {}, {}, {}, TRUE, Nil))
             ELSE \/ es' = Traced(es, call(FALSE, {}, {}, {}, FALSE, failed))
                  \/ es' = Traced(es, call(FALSE, {}, {dir}, {dir}, FALSE, failed))
                  \/ \E download \in DownloadResults :
                        es' = IF download.err # Nil
                              THEN Traced(es, call(FALSE, download.evs, {dir, file},
                                                   {dir, file}, FALSE, download.err))
                              ELSE Traced([es EXCEPT !.verifiedPackageFiles = @ \cup {p},
                                                     !.open = @ \cup {dir}],
                                          call(FALSE, download.evs, {dir, file}, {file},
                                               TRUE, Nil))
    /\ es' # es
    /\ UNCHANGED <<flowVars, lockVars, downloadVars, commandVars, callVars, mr, rec, ce, fe, xe>>

\* packageEngine.invokeArchiveCommand (package.go:193-277): a package with
\* a cached extraction directory goes to the command engine at once; for
\* any other the package file is opened, the package is downloaded and
\* verified, an extraction directory is opened and the archive is extracted
\* into it; the directory is closed again when the extraction fails and
\* cached otherwise; the package file is closed when the function returns.
invokeArchiveCommand ==
    /\ es.pc = "running"
    /\ InLoop(es)
    /\ \E p \in PackageIDs :
          LET flow == Last(es.frames)
              dir == Handle("extraction", p)
              file == Handle("file", p)
              call(cached, emitted, opened, closed, ran, err) ==
                  PackageCall("archive", p, flow, cached, emitted, opened, closed, ran, err)
          IN IF AlreadyPrepared(es.extractedPackages, p)
             THEN es' = Traced(es, call(TRUE, {}, {}, {}, TRUE, Nil))
             ELSE \/ es' = Traced(es, call(FALSE, {}, {}, {}, FALSE,
                                           Wrap("failed to prepare package file",
                                                Err("open failed", <<>>))))
                  \/ \E download \in DownloadResults :
                        IF download.err # Nil
                        THEN es' = Traced(es, call(FALSE, download.evs, {file}, {file},
                                                   FALSE, download.err))
                        ELSE \/ es' = Traced(es, call(FALSE, download.evs, {file}, {file},
                                                      FALSE,
                                                      Wrap("failed to prepare a directory for file extraction",
                                                           Err("open failed", <<>>))))
                             \/ \E extraction \in ExtractionResults :
                                   es' = IF extraction.err # Nil
                                         THEN Traced(es, call(FALSE,
                                                              download.evs \cup extraction.evs,
                                                              {file, dir}, {file, dir}, FALSE,
                                                              Wrap("extraction failed",
                                                                   extraction.err)))
                                         ELSE Traced([es EXCEPT
                                                         !.extractedPackages = @ \cup {p},
                                                         !.open = @ \cup {dir}],
                                                     call(FALSE,
                                                          download.evs \cup extraction.evs,
                                                          {file, dir}, {file}, TRUE, Nil))
    /\ es' # es
    /\ UNCHANGED <<flowVars, lockVars, downloadVars, commandVars, callVars, mr, rec, ce, fe, xe>>

InitState ==
    /\ EngineOff
    /\ InitLocker
    /\ InitNoDownload
    /\ InitNoCommand
    /\ InitNoCall
    /\ mr = NoMergeReader
    /\ es \in {NewDeploymentEngine(d) : d \in ValidatedDeployments}
    /\ rec = NoRecorder
    /\ ce = NoConditionEngine
    /\ fe = NoFileEngine
    /\ xe = NoExtraction

NextState ==
    \/ StateInvoke
    \/ StateFlowEnter
    \/ StateLockCreate
    \/ StateFlowStart
    \/ StateFlowLeave
    \/ invokePackageCommand
    \/ invokeArchiveCommand

SpecState == InitState /\ [][NextState]_vars

\* The invocations whose package engine is traced: a valid deployment.
PackageDeployments ==
    {d \in ValidatedDeployments :
        /\ DeploymentValidate(d) = {Nil}
        /\ ResourcesValidate(d) = {Nil}
        /\ DOMAIN d.packages # {}
        /\ \A c \in ConditionIDs :
              d.conditions[c] = Condition(ConditionFileExists, "f", FALSE, <<>>, <<>>)}

InitPackage ==
    /\ EngineOff
    /\ InitLocker
    /\ InitNoDownload
    /\ InitNoCommand
    /\ InitNoCall
    /\ mr = NoMergeReader
    /\ es \in {[NewDeploymentEngine(d) EXCEPT !.traced = TRUE] : d \in PackageDeployments}
    /\ rec = NoRecorder
    /\ ce = NoConditionEngine
    /\ fe = NoFileEngine
    /\ xe = NoExtraction

NextPackage ==
    \/ StateInvoke
    \/ StateFlowEnter
    \/ StateFlowStart
    \/ StateFlowLeave
    \/ PreparePackage
    \/ invokePackageCommand
    \/ invokeArchiveCommand

SpecPackage == InitPackage /\ [][NextPackage]_vars

(***************************************************************************)
(* lbengine.ConditionEngine: Evaluate and evaluate of condition.go, as the *)
(* call stack of evaluate.  A frame is one call of evaluate: the id it was *)
(* called with ("" for a child of a compound), its condition, its position *)
(* and the result of its inner function; kids is a ghost, the children     *)
(* that were evaluated for it with what they returned.  The directories    *)
(* and the file of the deployment's resources are in the state world gives *)
(* them; the file "f" lies in the directory "d1".  log is a ghost: the     *)
(* calls of evaluate that returned, in the order of their return.          *)
(***************************************************************************)
DirectoryIDs == {"d1", "d2"}

FileIDs == {"f"}

FileDir(file) == "d1"

Outcome(value, err) == [result |-> value, err |-> err]

\* lbengine's conditionSelfError(id, c, err) and the ConditionError of a
\* child.
EvalError(id, element, index, err) == Err("condition", <<id, element, index, err>>)

RecursiveError == Err("the condition is recursive and is already being evaluated", <<>>)

NotExist == Err("the file does not exist", <<>>)

\* condition.go:183-224: the conditions on a directory and on a file, and
\* the default of the switch.  OpenDir fails with an error that
\* os.IsNotExist recognizes for a missing directory, and with another error
\* for one that cannot be opened; Stat fails for a missing file.
EvaluateResource(world, id, c) ==
    CASE c.type = ConditionDirectoryExists ->
            IF c.subject \notin DirectoryIDs
            THEN Outcome(FALSE, EvalError(id, "self", 0, Err("the directory is not defined", <<>>)))
            ELSE IF world.dirs[c.subject] = "missing" THEN Outcome(FALSE, Nil)
            ELSE IF world.dirs[c.subject] = "denied"
            THEN Outcome(FALSE, EvalError(id, "self", 0, Err("access is denied", <<>>)))
            ELSE Outcome(TRUE, Nil)
      [] c.type = ConditionFileExists ->
            IF c.subject \notin FileIDs
            THEN Outcome(FALSE, EvalError(id, "self", 0, Err("the file is not defined", <<>>)))
            ELSE IF world.dirs[FileDir(c.subject)] = "missing" THEN Outcome(FALSE, Nil)
            ELSE IF world.dirs[FileDir(c.subject)] = "denied"
            THEN Outcome(FALSE, EvalError(id, "self", 0, Err("access is denied", <<>>)))
            ELSE IF world.files[c.subject] = "missing"
            THEN Outcome(FALSE, EvalError(id, "self", 0, NotExist))
            ELSE IF world.files[c.subject] = "regular" THEN Outcome(TRUE, Nil)
            ELSE Outcome(FALSE, EvalError(id, "self", 0,
                                          Err("the path exists but it is not a regular file", <<>>)))
      [] c.type \notin ConditionTypes ->
            Outcome(FALSE, EvalError(id, "self", 0, Err("unrecognized condition type", <<>>)))

\* condition.go:227-230: the result of the inner function, negated on
\* request; the error as it is.
Negate(c, inner) ==
    Outcome(IF c.negated THEN ~inner.result ELSE inner.result, inner.err)

NewEvaluation(id, c) ==
    [id |-> id, cond |-> c, pc |-> "enter", i |-> 0, kids |-> <<>>,
     inner |-> Outcome(FALSE, Nil)]

\* The list a compound condition ranges over: any when it has one, else all.
Children(c) == IF Len(c.any) > 0 THEN c.any ELSE c.all

EarlyReturnReentryIsFalse(id, cache, seen) ==
    IF id # "" /\ id \in DOMAIN cache THEN [early |-> "cached", out |-> Outcome(cache[id], Nil)]
    ELSE IF id # "" /\ id \in seen THEN [early |-> "recursive", out |-> Outcome(FALSE, Nil)]
    ELSE [early |-> "", out |-> Outcome(FALSE, Nil)]

\* condition.go:47-57: a named condition whose value is cached returns it, one
\* that is being evaluated returns the error; any other is evaluated.
EarlyReturn(id, cache, seen) ==
    IF id # "" /\ id \in DOMAIN cache THEN [early |-> "cached", out |-> Outcome(cache[id], Nil)]
    ELSE IF id # "" /\ id \in seen THEN [early |-> "recursive", out |-> Outcome(FALSE, RecursiveError)]
    ELSE [early |-> "", out |-> Outcome(FALSE, Nil)]

AfterChildNoShortCircuit(frame, out) ==
    LET isAny == Len(frame.cond.any) > 0
        list  == Children(frame.cond)
        f     == [frame EXCEPT !.kids = Append(@, [cond |-> list[frame.i], out |-> out])]
    IN  IF out.err # Nil
        THEN [f EXCEPT !.pc = "return",
                       !.inner = Outcome(FALSE, EvalError(frame.id, IF isAny THEN "any" ELSE "all",
                                                          frame.i - 1, out.err))]
        ELSE IF frame.i = Len(list)
        THEN [f EXCEPT !.pc = "return", !.inner = Outcome(out.result, Nil)]
        ELSE [f EXCEPT !.i = @ + 1]

\* condition.go:66-105, the loops over any and over all after the child at
\* frame.i returned out: the error of the child ends the loop, as does a
\* true child of any and a false child of all; after the last child any is
\* false and all is true.
AfterChild(frame, out) ==
    LET isAny == Len(frame.cond.any) > 0
        list  == Children(frame.cond)
        f     == [frame EXCEPT !.kids = Append(@, [cond |-> list[frame.i], out |-> out])]
    IN  IF out.err # Nil
        THEN [f EXCEPT !.pc = "return",
                       !.inner = Outcome(FALSE, EvalError(frame.id, IF isAny THEN "any" ELSE "all",
                                                          frame.i - 1, out.err))]
        ELSE IF isAny /\ out.result
        THEN [f EXCEPT !.pc = "return", !.inner = Outcome(TRUE, Nil)]
        ELSE IF ~isAny /\ ~out.result
        THEN [f EXCEPT !.pc = "return", !.inner = Outcome(FALSE, Nil)]
        ELSE IF frame.i = Len(list)
        THEN [f EXCEPT !.pc = "return", !.inner = Outcome(~isAny, Nil)]
        ELSE [f EXCEPT !.i = @ + 1]

\* A call of evaluate returns out to its caller, whose frame is the last of
\* rest: Evaluate itself, the loop of a compound, which goes on to its next
\* child or ends, or a condition that refers to a named one and returns what
\* that returned.
Deliver(e, rest, out) ==
    IF rest = <<>>
    THEN [e EXCEPT !.pc = "done", !.stack = <<>>, !.ret = out]
    ELSE LET parent == Last(rest)
             below  == SubSeq(rest, 1, Len(rest) - 1)
         IN  IF parent.pc = "forward"
             THEN [e EXCEPT !.stack = Append(below, [parent EXCEPT !.pc = "return", !.inner = out])]
             ELSE LET p == AfterChild(parent, out)
                  IN  [e EXCEPT !.stack =
                          IF p.pc = "children"
                          THEN below \o <<p, NewEvaluation("", Children(p.cond)[p.i])>>
                          ELSE Append(below, p)]

\* The entry of the log for the call of frame that returned out to the
\* callers of rest; active are the named conditions those are evaluating.
Returned(frame, early, out, rest) ==
    [id |-> frame.id, cond |-> frame.cond, kids |-> frame.kids, inner |-> frame.inner,
     early |-> early, out |-> out,
     active |-> {rest[n].id : n \in 1..Len(rest)} \ {""}]

\* ConditionEngine.Evaluate(condition), condition.go:35-43: the condition is
\* looked up and evaluated with a new cache and a new set.
ConditionEvaluate ==
    /\ ce.pc = "idle"
    /\ \E id \in {"c1", "c0"} :
          ce' = IF id \notin DOMAIN ce.conditions
                THEN [ce EXCEPT !.pc = "done", !.root = id,
                                !.ret = Outcome(FALSE, Err("the condition does not exist", <<>>))]
                ELSE [ce EXCEPT !.pc = "running", !.root = id,
                                !.stack = <<NewEvaluation(id, ce.conditions[id])>>]
    /\ UNCHANGED <<flowVars, lockVars, downloadVars, commandVars, callVars, mr, es, rec, fe, xe>>

\* evaluate from its entry to the call of a child, of the condition it
\* refers to, or to the end of its inner function, condition.go:45-224.
EvaluateEnter ==
    /\ ce.pc = "running"
    /\ Last(ce.stack).pc = "enter"
    /\ LET top   == Last(ce.stack)
           rest  == SubSeq(ce.stack, 1, Len(ce.stack) - 1)
           c     == top.cond
           early == EarlyReturn(top.id, ce.cache, ce.seen)
           e1    == [ce EXCEPT !.seen = IF top.id # "" THEN @ \cup {top.id} ELSE @]
       IN  ce' = IF early.early # ""
                 THEN [Deliver(ce, rest, early.out) EXCEPT
                          !.log = Append(@, Returned(top, early.early, early.out, rest))]
                 ELSE IF Len(c.any) > 0 \/ Len(c.all) > 0
                 THEN [e1 EXCEPT !.stack = rest \o <<[top EXCEPT !.pc = "children", !.i = 1],
                                                     NewEvaluation("", Children(c)[1])>>]
                 ELSE IF c.type = ConditionSubcondition
                 THEN IF c.subject \notin DOMAIN ce.conditions
                      THEN [e1 EXCEPT !.stack = Append(rest,
                               [top EXCEPT !.pc = "return",
                                           !.inner = Outcome(FALSE, EvalError(top.id, "self", 0,
                                                        Err("the condition is not defined", <<>>)))])]
                      ELSE [e1 EXCEPT !.stack = rest \o <<[top EXCEPT !.pc = "forward"],
                                         NewEvaluation(c.subject, ce.conditions[c.subject])>>]
                 ELSE [e1 EXCEPT !.stack = Append(rest,
                          [top EXCEPT !.pc = "return",
                                      !.inner = EvaluateResource(ce.world, top.id, c)])]
    /\ UNCHANGED <<flowVars, lockVars, downloadVars, commandVars, callVars, mr, es, rec, fe, xe>>

\* evaluate after its inner function, condition.go:227-238 and the deferred
\* removal from the set: the negation, the cache, the return to the caller.
EvaluateReturn ==
    /\ ce.pc = "running"
    /\ Last(ce.stack).pc = "return"
    /\ LET top  == Last(ce.stack)
           rest == SubSeq(ce.stack, 1, Len(ce.stack) - 1)
           out  == Negate(top.cond, top.inner)
           e1   == [ce EXCEPT
                      !.cache = IF top.id # "" /\ out.err = Nil
                                THEN [x \in DOMAIN @ \cup {top.id} |->
                                         IF x = top.id THEN out.result ELSE @[x]]
                                ELSE @,
                      !.seen = @ \ {top.id},
                      !.log = Append(@, Returned(top, "", out, rest))]
       IN  ce' = Deliver(e1, rest, out)
    /\ UNCHANGED <<flowVars, lockVars, downloadVars, commandVars, callVars, mr, es, rec, fe, xe>>

\* The conditions of the documents.  The children of a compound: the two
\* directories, one of them negated as well, the file, and a reference to
\* the condition "c2".
Leaf(type, subject, negated) == Condition(type, subject, negated, <<>>, <<>>)

ChildConditions ==
    {Leaf(ConditionDirectoryExists, "d1", FALSE),
     Leaf(ConditionDirectoryExists, "d2", FALSE),
     Leaf(ConditionDirectoryExists, "d2", TRUE),
     Leaf(ConditionFileExists, "f", FALSE),
     Leaf(ConditionSubcondition, "c2", FALSE)}

\* "c1" is a compound of up to MaxChildren children, or a single condition.
FirstConditions ==
    {Condition("", "", negated, any, <<>>) :
        negated \in BOOLEAN, any \in SeqsUpTo(ChildConditions, MaxChildren) \ {<<>>}}
      \cup {Condition("", "", negated, <<>>, all) :
        negated \in BOOLEAN, all \in SeqsUpTo(ChildConditions, MaxChildren) \ {<<>>}}
      \cup {Leaf(type, subject, negated) :
        type \in {ConditionDirectoryExists, ConditionFileExists, ConditionSubcondition},
        subject \in {"d1", "f", "c1", "c2"}, negated \in BOOLEAN}

\* "c2" is a single condition, or a compound that refers to "c1".
SecondConditions ==
    {Leaf(ConditionDirectoryExists, "d2", FALSE),
     Leaf(ConditionDirectoryExists, "d1", TRUE),
     Leaf(ConditionFileExists, "f", TRUE),
     Leaf("unknown", "d1", TRUE),
     Leaf(ConditionSubcondition, "c1", FALSE),
     Leaf(ConditionSubcondition, "c2", TRUE),
     Leaf(ConditionSubcondition, "c0", FALSE),
     Condition("", "", FALSE, <<Leaf(ConditionDirectoryExists, "d2", FALSE),
                                Leaf(ConditionSubcondition, "c1", FALSE)>>, <<>>),
     Condition("", "", TRUE, <<>>, <<Leaf(ConditionDirectoryExists, "d2", FALSE),
                                     Leaf(ConditionSubcondition, "c1", FALSE)>>)}

\* The states of the file system: a directory is there, is missing or
\* cannot be opened; the file is a regular file, is missing or is a
\* directory, and is missing when its directory is.
Worlds ==
    {w \in [dirs : [DirectoryIDs -> {"present", "missing", "denied"}],
            files : [FileIDs -> {"regular", "missing", "directory"}]] :
        /\ w.dirs["d2"] # "denied"
        /\ \A f \in FileIDs : w.dirs[FileDir(f)] = "missing" => w.files[f] = "missing"}

NewConditionEngine(conditions, world) ==
    [pc |-> "idle", conditions |-> conditions, world |-> world, root |-> "",
     stack |-> <<>>, cache |-> [x \in {} |-> FALSE], seen |-> {}, log |-> <<>>,
     ret |-> Outcome(FALSE, Nil)]

InitCondition ==
    /\ EngineOff
    /\ InitLocker
    /\ InitNoDownload
    /\ InitNoCommand
    /\ InitNoCall
    /\ mr = NoMergeReader
    /\ es = NoEngineState
    /\ rec = NoRecorder
    /\ fe = NoFileEngine
    /\ xe = NoExtraction
    /\ \E first \in FirstConditions, second \in SecondConditions, world \in Worlds :
          ce = NewConditionEngine([id \in {"c1", "c2"} |-> IF id = "c1" THEN first ELSE second],
                                  world)

NextCondition ==
    \/ ConditionEvaluate
    \/ EvaluateEnter
    \/ EvaluateReturn

SpecCondition == InitCondition /\ [][NextCondition]_vars

\* Evaluate runs in the goroutine of its caller, one statement after the
\* other: a step that can be taken is taken.
SpecConditionFair == SpecCondition /\ WF_vars(NextCondition)

(***************************************************************************)
(* The resource resolver: FileSystemResources.ResolveDirectory and         *)
(* RegistryResources.ResolveKey of lbdeploy.  A resource map gives each    *)
(* resource its location: another resource, a well-known root, an id that  *)
(* is not defined, or the empty id.  A lineage is given by the ids of its  *)
(* resources.                                                              *)
(***************************************************************************)
knownFolders == {"program-data"}

registryRoots == {"software"}

KnownRoots(fn) == IF fn = "ResolveDirectory" THEN knownFolders ELSE registryRoots

ResourceIDs == {"a", "b", "c"}

NotDefined == "missing"

\* The resource maps of one resolver: each id and the resolver's root may be
\* a key, each with any location.
ResourceMaps(fn) ==
    LET keys == ResourceIDs \cup KnownRoots(fn)
        locations == keys \cup {"", NotDefined}
    IN  UNION {[dom -> locations] : dom \in SUBSET keys}

SeenContainsAlways(seen, next) == seen # {}

\* seen.Contains(next)
SeenContains(seen, next) == next \in seen

\* slices.Reverse
Reverse(s) == [n \in 1..Len(s) |-> s[Len(s) + 1 - n]]

ResolveReturn(root, lineage, err) ==
    [pc |-> "done", root |-> root, lineage |-> lineage, err |-> err]

\* The resolver up to its loop: the lookup of the requested resource and
\* the check of its location.
ResolveEntry ==
    /\ args.fn \in {"ResolveDirectory", "ResolveKey"}
    /\ ret = NoCall
    /\ ret' = IF args.id \notin DOMAIN args.resources
              THEN IF args.id \in KnownRoots(args.fn)
                   THEN ResolveReturn(args.id, <<>>, Nil)
                   ELSE ResolveReturn("", <<>>, Err("is not defined", <<>>))
              ELSE IF args.resources[args.id] = ""
              THEN ResolveReturn("", <<>>, Err("does not have a location", <<>>))
              ELSE [pc |-> "loop", lineage |-> <<args.id>>,
                    next |-> args.resources[args.id], seen |-> {}, passes |-> 0]
    /\ UNCHANGED <<flowVars, lockVars, downloadVars, commandVars, args, mr, es, rec, ce, fe, xe>>

\* One pass of the resolver's loop; passes is a ghost that counts them.
ResolveLoop ==
    /\ args.fn \in {"ResolveDirectory", "ResolveKey"}
    /\ ret # NoCall
    /\ ret.pc = "loop"
    /\ ret' = IF SeenContains(ret.seen, ret.next)
              THEN ResolveReturn("", <<>>, Err("cyclic reference", <<>>))
              ELSE IF ret.next \in DOMAIN args.resources
              THEN IF args.resources[ret.next] = ""
                   THEN ResolveReturn("", <<>>, Err("parent does not have a location", <<>>))
                   ELSE [ret EXCEPT !.seen = @ \cup {ret.next},
                                    !.lineage = Append(@, ret.next),
                                    !.next = args.resources[ret.next],
                                    !.passes = @ + 1]
              ELSE IF ret.next \in KnownRoots(args.fn)
              THEN ResolveReturn(ret.next, Reverse(ret.lineage), Nil)
              ELSE ResolveReturn("", <<>>, Err("parent is not defined", <<>>))
    /\ UNCHANGED <<flowVars, lockVars, downloadVars, commandVars, args, mr, es, rec, ce, fe, xe>>

InitResolve ==
    /\ EngineOff
    /\ InitLocker
    /\ InitNoDownload
    /\ InitNoCommand
    /\ mr = NoMergeReader
    /\ es = NoEngineState
    /\ rec = NoRecorder
    /\ ce = NoConditionEngine
    /\ fe = NoFileEngine
    /\ xe = NoExtraction
    /\ \E fn \in {"ResolveDirectory", "ResolveKey"} :
          \E resources \in ResourceMaps(fn),
             id \in ResourceIDs \cup KnownRoots(fn) \cup {NotDefined} :
                args = [fn |-> fn, resources |-> resources, id |-> id]
    /\ ret = NoCall

NextResolve ==
    \/ ResolveEntry
    \/ ResolveLoop

SpecResolve == InitResolve /\ [][NextResolve]_vars

(***************************************************************************)
(* Versions: datatype.Version, CompareVersions and CompareVersionSegments. *)
(* A version is the sequence of its bytes.  No segment of the versions     *)
(* drawn here has the twenty digits that overflow strconv.ParseUint.       *)
(***************************************************************************)
VersionBytes == {".", "0", "1", "V", "v"}

\* The byte values, which order strings.Compare.
ByteValue(c) ==
    CASE c = "." -> 46 [] c = "0" -> 48 [] c = "1" -> 49 [] c = "V" -> 86 [] c = "v" -> 118

\* strings.IndexByte, counted from one; zero when the byte does not occur.
IndexByte(s, c) ==
    IF \E n \in 1..Len(s) : s[n] = c
    THEN CHOOSE n \in 1..Len(s) : s[n] = c /\ \A k \in 1..(n - 1) : s[k] # c
    ELSE 0

\* The loop of Version.Segments.
RECURSIVE SegmentsFrom(_)
SegmentsFrom(v) ==
    LET cut == IndexByte(v, ".")
    IN  IF cut = 0 THEN (IF v # <<>> THEN <<v>> ELSE <<>>)
        ELSE IF cut >= Len(v) THEN <<SubSeq(v, 1, cut - 1)>>
        ELSE <<SubSeq(v, 1, cut - 1)>> \o SegmentsFrom(SubSeq(v, cut + 1, Len(v)))

\* Version.Segments: a leading v or V of a longer version is ignored.
Segments(v) ==
    SegmentsFrom(IF Len(v) > 1 /\ v[1] \in {"v", "V"} THEN Tail(v) ELSE v)

\* strconv.ParseUint(s, 10, 64): ok and the value of a non-empty sequence
\* of digits.
RECURSIVE DigitsValue(_)
DigitsValue(s) ==
    IF s = <<>> THEN 0
    ELSE 10 * DigitsValue(SubSeq(s, 1, Len(s) - 1)) + (ByteValue(Last(s)) - 48)

ParseUint(s) ==
    IF s # <<>> /\ \A n \in 1..Len(s) : s[n] \in {"0", "1"}
    THEN [ok |-> TRUE, value |-> DigitsValue(s)]
    ELSE [ok |-> FALSE, value |-> 0]

\* strings.Compare
RECURSIVE StringsCompare(_, _)
StringsCompare(a, b) ==
    IF a = <<>> /\ b = <<>> THEN 0
    ELSE IF a = <<>> THEN -1
    ELSE IF b = <<>> THEN 1
    ELSE IF ByteValue(a[1]) < ByteValue(b[1]) THEN -1
    ELSE IF ByteValue(a[1]) > ByteValue(b[1]) THEN 1
    ELSE StringsCompare(Tail(a), Tail(b))

CompareVersionSegmentsNeverGreater(a, b) == IF a = b THEN 0 ELSE -1

\* CompareVersionSegments: as numbers when both segments parse, else by
\* length, else byte by byte.
CompareVersionSegments(a, b) ==
    LET i1 == ParseUint(a)
        i2 == ParseUint(b)
    IN  IF i1.ok /\ i2.ok
        THEN (IF i1.value < i2.value THEN -1 ELSE IF i1.value > i2.value THEN 1 ELSE 0)
        ELSE IF Len(a) < Len(b) THEN -1
        ELSE IF Len(a) > Len(b) THEN 1
        ELSE StringsCompare(a, b)

\* The loop of CompareVersions over the segments that are left of a and b.
RECURSIVE CompareSegmentLists(_, _)
CompareSegmentLists(sa, sb) ==
    IF sa = <<>> /\ sb = <<>> THEN 0
    ELSE IF sa = <<>> THEN -1
    ELSE IF sb = <<>> THEN 1
    ELSE LET s == CompareVersionSegments(sa[1], sb[1])
         IN  IF s # 0 THEN s ELSE CompareSegmentLists(Tail(sa), Tail(sb))

CompareVersions(a, b) == CompareSegmentLists(Segments(a), Segments(b))

\* The versions of at most n bytes.
Versions(n) == SeqsUpTo(VersionBytes, n)

\* CompareVersions is called on every pair of the versions of args.
CompareCall ==
    /\ args.fn = "CompareVersions"
    /\ ret = NoCall
    /\ ret' = [fn |-> "CompareVersions",
               cmp |-> [i \in DOMAIN args.versions, j \in DOMAIN args.versions |->
                           CompareVersions(args.versions[i], args.versions[j])]]
    /\ UNCHANGED <<flowVars, lockVars, downloadVars, commandVars, args, mr, es, rec, ce, fe, xe>>

InitCompare(versions) ==
    /\ EngineOff
    /\ InitLocker
    /\ InitNoDownload
    /\ InitNoCommand
    /\ mr = NoMergeReader
    /\ es = NoEngineState
    /\ rec = NoRecorder
    /\ ce = NoConditionEngine
    /\ fe = NoFileEngine
    /\ xe = NoExtraction
    /\ args = [fn |-> "CompareVersions", versions |-> versions]
    /\ ret = NoCall

\* Two versions of up to MaxVersionLen bytes.
InitCompareTwo == \E a \in Versions(MaxVersionLen), b \in Versions(MaxVersionLen) : InitCompare(<<a, b>>)

NextCompare == CompareCall

SpecCompareTwo == InitCompareTwo /\ [][NextCompare]_vars

\* Three versions of up to MaxOrderedLen bytes.
InitCompareThree ==
    \E a \in Versions(MaxOrderedLen), b \in Versions(MaxOrderedLen), c \in Versions(MaxOrderedLen) :
        InitCompare(<<a, b, c>>)

SpecCompareThree == InitCompareThree /\ [][NextCompare]_vars

(***************************************************************************)
(* internal/mergereader: MergeReader.  Each input has a producer           *)
(* (copyToChannel) that reads chunks and sends them on the unbuffered      *)
(* channel; a further goroutine closes the channel when all producers are  *)
(* done; the consumer calls Read.  Byte k of input i is <<i, k>>.  A send  *)
(* and the receive that takes it are one step.                             *)
(***************************************************************************)
Inputs == {1, 2}

EOF == Err("EOF", <<>>)

ReadFailed == Err("read failed", <<>>)

\* The bytes first..last of input i.
InputBytes(i, first, last) == [k \in 1..(last - first + 1) |-> <<i, first + k - 1>>]

Min(x, y) == IF x < y THEN x ELSE y

\* mergereader.New: the inputs (their length, and whether they end in an
\* error instead of EOF), a producer for each, the channel and the unread
\* chunk.  out is a ghost: the bytes Read has returned; carried counts the
\* chunks that did not fit the buffer.
NewMergeReader(len, fails) ==
    [pc |-> "on", len |-> len, fails |-> fails,
     pos |-> [i \in Inputs |-> 0],
     prod |-> [i \in Inputs |-> [pc |-> "read", data |-> <<>>, err |-> Nil, last |-> FALSE]],
     closed |-> FALSE,
     unread |-> [offset |-> 0, size |-> 0, data |-> <<>>],
     out |-> <<>>, lastErr |-> Nil, eof |-> FALSE, carried |-> 0, consumer |-> "Read"]

\* What r.Read(chunk.data[:]) of input i can return at position pos: some
\* of the bytes that are left, at most a chunk, and nil; the last bytes or
\* none with io.EOF; or, on an input that fails, an error after any bytes.
InputReads(i) ==
    LET left == mr.len[i] - mr.pos[i]
    IN  {[n |-> n, err |-> Nil] : n \in 1..Min(left, chunkSize)}
        \cup (IF mr.fails[i]
              THEN {[n |-> n, err |-> ReadFailed] : n \in 0..Min(left, chunkSize)}
              ELSE {[n |-> n, err |-> EOF] : n \in {left} \cap (0..chunkSize)})

\* copyToChannel, one pass of its loop up to the send: the chunk is sent
\* when it holds bytes or an error; a read that gave nothing but io.EOF
\* ends the producer.
copyToChannel ==
    /\ mr.pc = "on"
    /\ \E i \in Inputs :
          /\ mr.prod[i].pc = "read"
          /\ \E r \in InputReads(i) :
                LET err == IF r.err # Nil /\ r.err # EOF THEN r.err ELSE Nil
                    data == InputBytes(i, mr.pos[i] + 1, mr.pos[i] + r.n)
                IN  mr' = [mr EXCEPT
                             !.pos[i] = @ + r.n,
                             !.prod[i] =
                                 IF r.n > 0 \/ err # Nil
                                 THEN [pc |-> "send", data |-> data, err |-> err,
                                       last |-> r.err # Nil]
                                 ELSE [pc |-> "done", data |-> <<>>, err |-> Nil,
                                       last |-> TRUE]]
    /\ UNCHANGED <<flowVars, lockVars, downloadVars, commandVars, callVars, es, rec, ce, fe, xe>>

\* The goroutine of New that waits for the producers and closes the channel.
CloseChannel ==
    /\ mr.pc = "on"
    /\ ~mr.closed
    /\ \A i \in Inputs : mr.prod[i].pc = "done"
    /\ mr' = [mr EXCEPT !.closed = TRUE]
    /\ UNCHANGED <<flowVars, lockVars, downloadVars, commandVars, callVars, es, rec, ce, fe, xe>>

UnreadWriteFromStart(data, offset) ==
    [offset |-> 0, size |-> Len(data), data |-> data]

\* unreadChunk.Write: the bytes of the incoming chunk from offset on.
UnreadWrite(data, offset) ==
    [offset |-> 0, size |-> Len(data) - offset,
     data |-> SubSeq(data, offset + 1, Len(data))]

\* MergeReader.Read with a buffer of n bytes: unread bytes are returned
\* first; else a chunk is received, and what does not fit is kept as
\* unread; a closed channel gives io.EOF.  The consumer calls Read until
\* io.EOF; when it is io.Copy (command.go:281), it calls Read until Read
\* returns any error.
MergeRead ==
    /\ mr.pc = "on"
    /\ ~mr.eof
    /\ mr.consumer = "io.Copy" => mr.lastErr = Nil
    /\ \E n \in 1..MaxBuffer :
          IF mr.unread.offset < mr.unread.size
          THEN LET copied == Min(n, mr.unread.size - mr.unread.offset)
               IN  mr' = [mr EXCEPT
                            !.out = @ \o SubSeq(mr.unread.data, mr.unread.offset + 1,
                                                mr.unread.offset + copied),
                            !.unread.offset = @ + copied,
                            !.lastErr = Nil]
          ELSE \/ \E i \in Inputs :
                     /\ mr.prod[i].pc = "send"
                     /\ LET chunk == mr.prod[i]
                            copied == Min(n, Len(chunk.data))
                        IN  mr' = [mr EXCEPT
                                     !.out = @ \o SubSeq(chunk.data, 1, copied),
                                     !.unread = IF copied < Len(chunk.data)
                                                THEN UnreadWrite(chunk.data, copied)
                                                ELSE @,
                                     !.carried = IF copied < Len(chunk.data)
                                                 THEN Min(@ + 1, 2) ELSE @,
                                     !.lastErr = chunk.err,
                                     !.prod[i] =
                                         IF chunk.last
                                         THEN [pc |-> "done", data |-> <<>>,
                                               err |-> Nil, last |-> TRUE]
                                         ELSE [pc |-> "read", data |-> <<>>,
                                               err |-> Nil, last |-> FALSE]]
               \/ /\ mr.closed
                  /\ mr' = [mr EXCEPT !.eof = TRUE, !.lastErr = EOF]
    /\ UNCHANGED <<flowVars, lockVars, downloadVars, commandVars, callVars, es, rec, ce, fe, xe>>

InitMerge ==
    /\ EngineOff
    /\ InitLocker
    /\ InitNoDownload
    /\ InitNoCommand
    /\ InitNoCall
    /\ es = NoEngineState
    /\ rec = NoRecorder
    /\ ce = NoConditionEngine
    /\ fe = NoFileEngine
    /\ xe = NoExtraction
    /\ \E len \in [Inputs -> 0..MaxInputLen], fails \in [Inputs -> BOOLEAN] :
          mr = NewMergeReader(len, fails)

NextMerge ==
    \/ copyToChannel
    \/ CloseChannel
    \/ MergeRead

SpecMerge == InitMerge /\ [][NextMerge]_vars

\* The MergeReader read by io.Copy, as the command engine reads the output
\* of a child (command.go:278-281).
InitMergeCopy ==
    /\ EngineOff
    /\ InitLocker
    /\ InitNoDownload
    /\ InitNoCommand
    /\ InitNoCall
    /\ es = NoEngineState
    /\ rec = NoRecorder
    /\ ce = NoConditionEngine
    /\ fe = NoFileEngine
    /\ xe = NoExtraction
    /\ \E len \in [Inputs -> 0..MaxInputLen], fails \in [Inputs -> BOOLEAN] :
          mr = [NewMergeReader(len, fails) EXCEPT !.consumer = "io.Copy"]

\* Every goroutine that can take a step takes one in the end, and so does
\* the consumer as long as it goes on reading.
FairMerge == WF_vars(copyToChannel) /\ WF_vars(CloseChannel) /\ WF_vars(MergeRead)

SpecMergeFair == SpecMerge /\ FairMerge

SpecMergeCopyFair == InitMergeCopy /\ [][NextMerge]_vars /\ FairMerge

(***************************************************************************)
(* lbevent: MultiHandler.Handle and WrapHandlerError.  A member handler is *)
(* given by its name and by what its Handle returns for the record.        *)
(***************************************************************************)
HandlerNames == {"basic", "windows-application-log"}

HandlerError(name, err) == [kind |-> "HandlerError", handler |-> name, of |-> <<err>>]

MultiHandlerError(name, errs) == [kind |-> "MultiHandlerError", handler |-> name, of |-> errs]

WrapHandlerErrorFirstOnly(name, errs) ==
    IF Len(errs) = 0 THEN Nil ELSE HandlerError(name, errs[1])

\* WrapHandlerError(handler, r, errs...), name being handler.Name().
WrapHandlerError(name, errs) ==
    IF Len(errs) = 0 THEN Nil
    ELSE IF Len(errs) = 1
    THEN IF errs[1] = Nil THEN Nil
         ELSE IF errs[1].kind \in {"HandlerError", "MultiHandlerError"} THEN errs[1]
         ELSE HandlerError(name, errs[1])
    ELSE MultiHandlerError(name, errs)

\* The MultiHandlers of up to MaxHandlers members: each member has a name,
\* and its Handle returns nil, an error of its own, or an error it has
\* wrapped as a HandlerError already.
MultiHandlers ==
    UNION {[1..n -> [name : HandlerNames, outcome : {"nil", "error", "handler-error"}]] :
              n \in 0..MaxHandlers}

\* handler.Handle(r)
HandlerReturns(handler) ==
    CASE handler.outcome = "nil" -> Nil
      [] handler.outcome = "error" -> Err("write failed", <<>>)
      [] handler.outcome = "handler-error" ->
            HandlerError(handler.name, Err("write failed", <<>>))

\* MultiHandler.Handle is called.
MultiHandleCall ==
    /\ args.fn = "MultiHandler.Handle"
    /\ ret = NoCall
    /\ ret' = [pc |-> "loop", delivered |-> <<>>, errs |-> <<>>, err |-> Nil]
    /\ UNCHANGED <<flowVars, lockVars, downloadVars, commandVars, args, mr, es, rec, ce, fe, xe>>

\* One pass of the loop of MultiHandler.Handle: the record is handed to the
\* next member, whose error is wrapped and kept; delivered is a ghost.
MultiHandleMember ==
    /\ args.fn = "MultiHandler.Handle"
    /\ ret # NoCall
    /\ ret.pc = "loop"
    /\ Len(ret.delivered) < Len(args.handlers)
    /\ LET n == Len(ret.delivered) + 1
           handler == args.handlers[n]
           err == HandlerReturns(handler)
       IN  ret' = [ret EXCEPT
                     !.delivered = Append(@, n),
                     !.errs = IF err # Nil
                              THEN Append(@, WrapHandlerError(handler.name, <<err>>))
                              ELSE @]
    /\ UNCHANGED <<flowVars, lockVars, downloadVars, commandVars, args, mr, es, rec, ce, fe, xe>>

\* MultiHandler.Handle returns after its loop.
MultiHandleReturn ==
    /\ args.fn = "MultiHandler.Handle"
    /\ ret # NoCall
    /\ ret.pc = "loop"
    /\ Len(ret.delivered) = Len(args.handlers)
    /\ ret' = [ret EXCEPT !.pc = "done",
                          !.err = WrapHandlerError("multi-handler", ret.errs)]
    /\ UNCHANGED <<flowVars, lockVars, downloadVars, commandVars, args, mr, es, rec, ce, fe, xe>>

InitMultiHandler ==
    /\ EngineOff
    /\ InitLocker
    /\ InitNoDownload
    /\ InitNoCommand
    /\ mr = NoMergeReader
    /\ es = NoEngineState
    /\ rec = NoRecorder
    /\ ce = NoConditionEngine
    /\ fe = NoFileEngine
    /\ xe = NoExtraction
    /\ \E handlers \in MultiHandlers : args = [fn |-> "MultiHandler.Handle", handlers |-> handlers]
    /\ ret = NoCall

NextMultiHandler ==
    \/ MultiHandleCall
    \/ MultiHandleMember
    \/ MultiHandleReturn

SpecMultiHandler == InitMultiHandler /\ [][NextMultiHandler]_vars

(***************************************************************************)
(* lbevent: Recorder.Record.  events holds the events the engines handed   *)
(* to the recorder, with ghost entries of the types "eval", "trylock" and  *)
(* "unlock" in between; rec is the recorder: its handler, if any, and the  *)
(* event types whose records the handler fails to handle.                  *)
(***************************************************************************)
RecordedTypes ==
    {"FlowAlreadyRunning", "FlowCondition", "FlowLockNotAcquired", "FlowStarted",
     "FlowStopped", "ActionStarted", "ActionStopped"}

\* HandlerError.Component
HandlerErrorComponent == "event-handler"

\* rec.Handler.Handle(record)
HandlerHandle(event) ==
    IF event.type \in rec.fails THEN Err("handler failed", <<>>) ELSE Nil

\* A HandlerError as an event.
HandlerErrorEvent(err) == [type |-> HandlerErrorComponent, err |-> err]

RecordRetriesWhileFailing(event) ==
    LET err == WrapHandlerError(rec.handler, <<HandlerHandle(event)>>)
    IN  IF rec.handler = "" THEN [handled |-> <<>>, err |-> Nil]
        ELSE IF err = Nil THEN [handled |-> <<event>>, err |-> Nil]
        ELSE [handled |-> <<event, HandlerErrorEvent(err), HandlerErrorEvent(err)>>,
              err |-> Nil]

\* Recorder.Record(event): the records the handler is handed, and the error
\* returned.  A recorder without handler drops the event; an error of the
\* handler is wrapped and handed to the handler as an event, once.
Record(event) ==
    IF rec.handler = "" THEN [handled |-> <<>>, err |-> Nil]
    ELSE LET err == WrapHandlerError(rec.handler, <<HandlerHandle(event)>>)
         IN  IF err # Nil
             THEN [handled |-> <<event, HandlerErrorEvent(err)>>, err |-> err]
             ELSE [handled |-> <<event>>, err |-> Nil]

\* The events of the engines, without the ghost entries.
Recorded == SelectSeq(events, LAMBDA e : e.type \in RecordedTypes)

\* The recorders explored: none, one whose handler never fails, and some
\* whose handler fails on events of some types, among them its own errors.
Recorders ==
    {NoRecorder}
        \cup {[handler |-> "basic", fails |-> f] :
                 f \in {{}, {"ActionStopped"}, RecordedTypes \cup {HandlerErrorComponent}}}

\* Documents that vary the actions and the on-error behavior of the flow that
\* is asked for, and the preconditions of the flow it starts.
RecorderDeployments ==
    {[behavior |-> b, flows |-> [f \in Flows |-> IF f = "X" THEN Flow(<<>>, <<>>, bx, ax)
                                                 ELSE Flow(py, <<>>, OnErrorUnspecified, ay)]] :
        b \in {OnErrorUnspecified, OnErrorContinue}, bx \in OnErrorValues,
        ax \in SeqsUpTo(ActionsX, MaxActions), py \in SeqsUpTo(ConditionIDs, MaxPre),
        ay \in {<<>>, <<Action(ActionCopyFile, "")>>,
                <<Action(ActionCopyFile, ""), Action(ActionStartFlow, "X")>>}}

InitRecorder ==
    /\ dep \in RecorderDeployments
    /\ InitEngine
    /\ InitLocker
    /\ InitNoDownload
    /\ InitNoCommand
    /\ InitNoCall
    /\ mr = NoMergeReader
    /\ es = NoEngineState
    /\ rec \in Recorders
    /\ ce = NoConditionEngine
    /\ fe = NoFileEngine
    /\ xe = NoExtraction

SpecRecorder == InitRecorder /\ [][Next]_vars

(***************************************************************************)
(* The flow engine over documents whose flows have several preconditions:  *)
(* "X" starts "Y" and then runs an action of another type, both flows have *)
(* a lock.                                                                 *)
(***************************************************************************)
SeveralPreconditionDeployments ==
    {[behavior |-> OnErrorContinue, flows |-> [f \in Flows |-> IF f = "X"
            THEN Flow(px, <<"L1">>, OnErrorUnspecified,
                      <<Action(ActionStartFlow, "Y"), ax>>)
            ELSE Flow(py, <<"L2">>, OnErrorUnspecified, <<Action(ActionDeleteFile, "")>>)]] :
        px \in SeqsUpTo(ConditionIDs, MaxFlowPre), py \in SeqsUpTo(ConditionIDs, MaxFlowPre),
        ax \in {Action(ActionInvokeCommand, ""), Action("bogus", "")}}

InitPrecondition ==
    /\ dep \in SeveralPreconditionDeployments
    /\ InitEngine
    /\ InitRest

SpecPrecondition == InitPrecondition /\ [][Next]_vars

(***************************************************************************)
(* Properties of the flow orchestrator and the lock manager.               *)
(***************************************************************************)
\* The entries of events that belong to invocation inv and have one of types.
Sel(inv, types) == SelectSeq(events, LAMBDA e : e.inv = inv /\ e.type \in types)

\* How often lock id l occurs in a lock list.
Mult(l, locks) == Cardinality({n \in 1..Len(locks) : locks[n] = l})

\* The on-error behavior in effect for a flow: the flow's own when it
\* states one, else the deployment's.
EffectiveOnError(flow) ==
    IF dep.flows[flow].behavior # "" THEN dep.flows[flow].behavior ELSE dep.behavior

AlreadyRunning == Err("flow is already running", <<>>)

StepTypes == {"eval", "trylock", "unlock", "FlowCondition", "FlowLockNotAcquired",
              "FlowStarted", "FlowStopped", "ActionStarted", "ActionStopped"}

\* C1 as stated: whenever a flow is invoked while its id is in the
\* active-flow set, the invocation emits FlowAlreadyRunning and fails with
\* the already-running error, and no precondition, lock or action of the
\* flow runs for it.
C1_ReentryAlwaysAlreadyRunning ==
    /\ \A n \in 1..Len(stack) : stack[n].reentry => stack[n].pc = "entry"
    /\ lastReturn.reentry =>
          /\ lastReturn.err = AlreadyRunning
          /\ Len(Sel(lastReturn.inv, {"FlowAlreadyRunning"})) = 1
          /\ Len(Sel(lastReturn.inv, StepTypes)) = 0

\* C1 amended: a flow invoked while its id is in the active-flow set is
\* rejected before any of its preconditions, locks or actions run, and
\* never returns nil: it emits FlowAlreadyRunning and fails with the
\* already-running error, unless the context is already cancelled when it
\* is invoked, in which case it returns the cancellation error and emits
\* nothing.
C1_ReentryRejected ==
    /\ \A n \in 1..Len(stack) : stack[n].reentry => stack[n].pc = "entry"
    /\ lastReturn.reentry =>
          /\ \/ /\ lastReturn.err = AlreadyRunning
                /\ Len(Sel(lastReturn.inv, {"FlowAlreadyRunning"})) = 1
             \/ /\ lastReturn.err = CtxErr
                /\ cancelled
                /\ Len(Sel(lastReturn.inv, {"FlowAlreadyRunning"})) = 0
          /\ Len(Sel(lastReturn.inv, StepTypes)) = 0
          /\ lastReturn.after = lastReturn.before

C1_Witness ==
    /\ lastReturn.reentry
    /\ lastReturn.err = AlreadyRunning
    /\ Len(stack) >= 2

Rank(type) == IF type = "eval" THEN 1 ELSE IF type = "trylock" THEN 2 ELSE 3

\* C2: in every flow invocation all precondition evaluations come before
\* the first lock attempt, the lock attempts come before the first action,
\* and every lock of the group is held when an action of the flow starts.
C2_PreconditionsLocksActions ==
    \A n \in 1..Len(stack) :
        LET f == stack[n]
            order == Sel(f.inv, {"eval", "trylock", "ActionStarted"})
            past == Len(Sel(f.inv, {"trylock", "FlowStarted", "ActionStarted"})) > 0
        IN /\ \A k \in 1..(Len(order) - 1) : Rank(order[k].type) <= Rank(order[k + 1].type)
           /\ past => Len(Sel(f.inv, {"eval"})) = Len(Def(f).preconditions)
           /\ Len(Sel(f.inv, {"ActionStarted"})) > 0 =>
                 /\ Len(Sel(f.inv, {"trylock"})) = Len(Def(f).locks)
                 /\ \A m \in 1..Len(Def(f).locks) :
                       /\ lk[Def(f).locks[m]].counter > 0
                       /\ lk[Def(f).locks[m]].held

C2_Witness ==
    \E n \in 1..Len(stack) :
        /\ stack[n].pc = "action"
        /\ Len(Def(stack[n]).preconditions) > 0
        /\ Len(Def(stack[n]).locks) > 1

\* C3: when a flow invocation that acquired its lock group returns, each
\* member of the group has been unlocked once for it, and every hold count
\* equals its value before the invocation.
C3_LocksReleasedOnReturn ==
    lastReturn.locked =>
        \A l \in LockIDs :
            /\ lastReturn.after[l] = lastReturn.before[l]
            /\ Len(SelectSeq(events, LAMBDA e : e.inv = lastReturn.inv /\ e.type = "unlock"
                                                  /\ e.info = <<l>>))
                  = Mult(l, dep.flows[lastReturn.flow].locks)

C3_Witness ==
    /\ lastReturn.locked
    /\ lastReturn.err # Nil
    /\ cancelled
    /\ \E l \in LockIDs : Mult(l, dep.flows[lastReturn.flow].locks) > 0 /\ lastReturn.before[l] > 0

\* C4: LockGroup.Lock tries the members in declaration order; when member
\* i cannot be acquired, the members before it are unlocked in reverse
\* order, every counter and every OS mutex is back as before the attempt,
\* and the LockError names member i.
C4_GroupLockAllOrNothing ==
    (args.fn = "LockGroup.Lock" /\ ret # NoCall) =>
        LET members == args.members
            tries == SelectSeq(ret.log, LAMBDA e : e[1] = "trylock")
            n == Len(tries)
        IN /\ \A k \in 1..n : tries[k] = <<"trylock", members[k]>> /\ ret.log[k] = tries[k]
           /\ ret.ok =>
                 /\ n = Len(members)
                 /\ Len(ret.log) = n
                 /\ \A l \in GroupLockIDs :
                       ret.lk[l].counter = args.lk[l].counter + Mult(l, members)
           /\ ~ret.ok =>
                 /\ n >= 1
                 /\ ret.failed = members[n]
                 /\ ~args.osFree[members[n]]
                 /\ args.lk[members[n]].counter = 0
                 /\ Mult(members[n], SubSeq(members, 1, n - 1)) = 0
                 /\ Len(ret.log) = 2 * n - 1
                 /\ \A j \in 1..(n - 1) : ret.log[n + j] = <<"unlock", members[n - j]>>
                 /\ \A l \in GroupLockIDs :
                       /\ ret.lk[l].counter = args.lk[l].counter
                       /\ ret.lk[l].held = args.lk[l].held
                       /\ ret.lk[l].acquired = ret.lk[l].released + (IF ret.lk[l].held THEN 1 ELSE 0)

\* The third member of a group of three different locks could not be
\* acquired: the second, which an enclosing flow holds, and then the first,
\* which nobody held, were unlocked.
C4_Witness ==
    /\ args.fn = "LockGroup.Lock"
    /\ ret # NoCall
    /\ ~ret.ok
    /\ args.members = <<"L2", "L3", "L1">>
    /\ ret.failed = "L1"
    /\ args.lk["L2"].counter = 0
    /\ args.lk["L3"].counter = 1
    /\ ret.log = <<<<"trylock", "L2">>, <<"trylock", "L3">>, <<"trylock", "L1">>,
                   <<"unlock", "L3">>, <<"unlock", "L2">>>>
    /\ ret.lk["L2"].released = 1
    /\ ret.lk["L3"].counter = 1
    /\ ret.lk["L3"].released = 0

\* The reentry depth after the first k calls of the harness.
Depth(k) ==
    Cardinality({n \in 1..k : calls[n] \in {"lock", "trylock"}})
        - Cardinality({n \in 1..k : calls[n] = "unlock"})

\* calls is n Lock() calls followed by u Unlock() calls.
LocksThenUnlocks(n, u) ==
    /\ Len(calls) = n + u
    /\ \A k \in 1..Len(calls) : calls[k] = (IF k <= n THEN "lock" ELSE "unlock")

\* C5: N successive Lock() calls bring the counter to N; the OS mutex is
\* acquired only by a call that takes the counter from 0 to 1 and released
\* only by a call that takes it from 1 to 0, so N locks followed by N
\* unlocks acquire it exactly once and release it exactly once.
C5_ReentrantCounter ==
    /\ lock.counter = Depth(Len(calls))
    /\ lock.held = (lock.counter > 0)
    /\ lock.acquired = Cardinality({k \in 1..Len(calls) :
                         calls[k] \in {"lock", "trylock"} /\ Depth(k - 1) = 0})
    /\ lock.released = Cardinality({k \in 1..Len(calls) :
                         calls[k] = "unlock" /\ Depth(k - 1) = 1})
    /\ \A n \in 1..MaxCalls :
          /\ LocksThenUnlocks(n, 0) => lock.counter = n /\ lock.acquired = 1 /\ lock.released = 0
          /\ LocksThenUnlocks(n, n) => lock.counter = 0 /\ lock.acquired = 1 /\ lock.released = 1

C5_Witness ==
    /\ LocksThenUnlocks(MaxCalls \div 2, MaxCalls \div 2)
    /\ MaxCalls \div 2 >= 3
    /\ lock.acquired = 1
    /\ lock.released = 1

\* C6: when an action of a flow fails and the on-error behavior in effect
\* is not continue, no later action of that flow is invoked: a failed
\* ActionStopped is the last action event of its invocation.
C6_StopOnError ==
    \A n \in 1..Len(stack) :
        LET f == stack[n]
            acts == Sel(f.inv, {"ActionStarted", "ActionStopped"})
        IN EffectiveOnError(f.flow) # "continue" =>
              \A k \in 1..(Len(acts) - 1) :
                  ~(acts[k].type = "ActionStopped" /\ acts[k].err # Nil)

C6_Witness ==
    \E n \in 1..Len(stack) :
        LET f == stack[n]
        IN /\ EffectiveOnError(f.flow) # "continue"
           /\ f.pc = "stopped"
           /\ f.i < Len(Def(f).actions)
           /\ Def(f).actions[f.i].type = "start-flow"
           /\ Len(f.errs) = 1
           /\ ~cancelled

\* C7: with on-error continue in effect and no cancellation, every action
\* of the flow is invoked in order whatever failed before, and the error
\* the flow returns and FlowStopped carries is the join of the errors of
\* the failed actions: nil exactly when none failed.
C7_ContinueJoinsErrors ==
    (/\ lastReturn.inv # 0
     /\ ~cancelled
     /\ Len(Sel(lastReturn.inv, {"FlowStarted"})) = 1
     /\ EffectiveOnError(lastReturn.flow) = "continue") =>
        LET actions == dep.flows[lastReturn.flow].actions
            started == Sel(lastReturn.inv, {"ActionStarted"})
            stopped == Sel(lastReturn.inv, {"ActionStopped"})
            failures == SelectSeq(stopped, LAMBDA e : e.err # Nil)
            flowStopped == Sel(lastReturn.inv, {"FlowStopped"})
        IN /\ Len(started) = Len(actions)
           /\ Len(stopped) = Len(actions)
           /\ \A k \in 1..Len(started) :
                 started[k].index = k - 1 /\ started[k].atype = actions[k].type
           /\ lastReturn.err = (IF Len(failures) = 0 THEN [kind |-> "nil", of |-> <<>>]
                                ELSE [kind |-> "join",
                                      of |-> [k \in 1..Len(failures) |-> failures[k].err]])
           /\ Len(flowStopped) = 1
           /\ flowStopped[1].err = lastReturn.err
           /\ (lastReturn.err # Nil) <=> (Len(failures) > 0)

C7_Witness ==
    /\ lastReturn.inv # 0
    /\ ~cancelled
    /\ EffectiveOnError(lastReturn.flow) = "continue"
    /\ LET stopped == Sel(lastReturn.inv, {"ActionStopped"})
       IN /\ Len(stopped) = 2
          /\ stopped[1].err # Nil
          /\ stopped[2].err = Nil
          /\ lastReturn.err # Nil

ActionsStarted(evs) == Len(SelectSeq(evs, LAMBDA e : e.type = "ActionStarted"))

\* The invocations whose loop has passed its test of ctx.Err() and has not
\* yet had the ActionStarted of that iteration recorded.
PendingStarts(stk) == {stk[n].inv : n \in {m \in 1..Len(stk) : stk[m].pc = "invoke"}}

\* The positions in events of the ActionStarted records made while the
\* context was cancelled.
LateStarts ==
    {k \in 1..Len(events) : events[k].type = "ActionStarted" /\ events[k].info = <<CtxErr>>}

\* C8: once the context is cancelled no loop of any flow, outer or nested,
\* passes its test of ctx.Err() again, whatever the on-error behavior.
\* The only action that still starts is the one whose iteration had passed
\* the test before the cancellation and whose ActionStarted was not yet
\* recorded: that start uses the pending iteration up, so at most one
\* action starts after the cancellation.
C8_CancelStopsTheLoop ==
    [][cancelled =>
          /\ PendingStarts(stack') \subseteq PendingStarts(stack)
          /\ ActionsStarted(events') # ActionsStarted(events) =>
                /\ PendingStarts(stack) # {}
                /\ PendingStarts(stack') = {}
                /\ ActionsStarted(events') = ActionsStarted(events) + 1
                /\ Cardinality(LateStarts) = 0]_vars

\* Under on-error continue, the flow's first action was started after the
\* cancellation and failed with an error of its own; the test before the
\* second action stopped the flow with the error of the context.
C8_Witness ==
    /\ cancelled
    /\ \E n \in 1..Len(stack) :
          LET f == stack[n]
              starts == Sel(f.inv, {"ActionStarted"})
          IN /\ f.behavior = "continue"
             /\ f.pc = "stopped"
             /\ f.i = 2
             /\ f.i <= Len(Def(f).actions)
             /\ Len(starts) = 1
             /\ starts[1].info = <<CtxErr>>
             /\ Len(f.errs) = 2
             /\ f.errs[1].kind = "action failed"
             /\ f.errs[2] = CtxErr

\* The claim as it is worded: once the context is cancelled no action of
\* any flow is started.
C8_NoActionAfterCancel ==
    [][cancelled => ActionsStarted(events') = ActionsStarted(events)]_vars

\* C9: the action events of a flow invocation alternate ActionStarted,
\* ActionStopped with indexes 0, 0, 1, 1, ...: every action execution has
\* one ActionStarted followed by one ActionStopped of the same flow, index
\* and type, in document order, whether or not the action failed.
C9_ActionBrackets ==
    \A n \in 1..Len(stack) :
        LET f == stack[n]
            acts == Sel(f.inv, {"ActionStarted", "ActionStopped"})
        IN /\ Len(acts) <= 2 * Len(Def(f).actions)
           /\ (f.pc = "action") <=> (Len(acts) % 2 = 1)
           /\ \A k \in 1..Len(acts) :
                 /\ acts[k].type = (IF k % 2 = 1 THEN "ActionStarted" ELSE "ActionStopped")
                 /\ acts[k].index = (k - 1) \div 2
                 /\ acts[k].flow = f.flow
                 /\ acts[k].atype = Def(f).actions[((k - 1) \div 2) + 1].type

C9_Witness ==
    \E n \in 1..Len(stack) :
        LET acts == Sel(stack[n].inv, {"ActionStarted", "ActionStopped"})
        IN /\ Len(acts) = 3
           /\ acts[2].err # Nil
           /\ acts[2].atype = "bogus"

(***************************************************************************)
(* Properties of download-and-verify.                                      *)
(***************************************************************************)
\* The events of the given types, in order.
OfTypes(types) == SelectSeq(events, LAMBDA e : e.type \in types)

\* The staging file held, when the call was made, content of the expected
\* size whose hashes are the expected ones.
FileMatched ==
    /\ dl.pc # "off"
    /\ Len(dl.file0) = pkg.expected.size
    /\ \A t \in DOMAIN pkg.expected.hashes : pkg.expected.hashes[t] = Sum(dl.file0)

\* The call went no further than verifying the existing content: one
\* FileVerification event and no other, no HTTP request, the content as it
\* was, and nil returned.
SkippedDownload ==
    /\ dl.pc \in {"start", "done"}
    /\ dl.file = dl.file0
    /\ requests = <<>>
    /\ OfTypes({"DownloadStarted", "DownloadStopped", "DownloadReset"}) = <<>>
    /\ dl.pc = "done" =>
          /\ dl.result = Nil
          /\ Len(OfTypes({"FileVerification"})) = 1
          /\ Len(events) = 1

\* C10 as stated: download-and-verify on a staging file whose size and
\* hashes match the expected attributes emits exactly one FileVerification
\* event, no DownloadStarted, DownloadStopped or DownloadReset, issues no
\* HTTP request, leaves the content unchanged, and succeeds.
C10_MatchingFileSkipsDownload == FileMatched => SkippedDownload

\* C10 amended: the same holds when the expected attributes carry at least
\* one hash and the context is not cancelled when the existing content is
\* read.  Otherwise the call still issues no request, emits no event and
\* leaves the content unchanged, but it fails: without an expected hash
\* before it reads the file, under a cancelled context while it reads it.
C10_MatchingHashedFileSkipsDownload ==
    FileMatched =>
        IF DOMAIN pkg.expected.hashes # {} /\ dl.ctxAtRead = Nil
        THEN SkippedDownload
        ELSE /\ dl.pc \in {"start", "done"}
             /\ dl.file = dl.file0
             /\ requests = <<>>
             /\ events = <<>>
             /\ dl.pc = "done" => dl.result # Nil

C10_Witness ==
    /\ FileMatched
    /\ DOMAIN pkg.expected.hashes # {}
    /\ Len(dl.file0) = MaxSize
    /\ pkg.sources > 0
    /\ dl.pc = "done"
    /\ dl.result = Nil
    /\ Len(OfTypes({"FileVerification"})) = 1

\* The staging file held k bytes, 0 < k < the expected size, when the call
\* was made.
PartialFile == dl.pc # "off" /\ 0 < Len(dl.file0) /\ Len(dl.file0) < pkg.expected.size

\* What a server holding srv sends from offset k on.
Remaining(k) == SubSeq(srv, k + 1, Len(srv))

\* The first source answered 206 and its body was read to its end: the
\* first two events are DownloadStarted at an offset above zero and
\* DownloadStopped without error.
ResumedFromFirstSource ==
    /\ Len(events) >= 2
    /\ events[1].type = "DownloadStarted" /\ events[1].offset > 0 /\ events[1].source = 1
    /\ events[2].type = "DownloadStopped" /\ events[2].err = Nil

\* C11: with k bytes in the staging file, 0 < k < expected size, the first
\* GET carries the range offset k; when the server answers 206 with the
\* remaining bytes there is exactly one DownloadStarted, with offset k, and
\* one DownloadStopped, with downloaded = expected size - k, the body is
\* appended after the k bytes, file length and verifier byte count are
\* equal, and when the content is the expected one the final
\* FileVerification matches and the call succeeds.
C11_ResumeAppends ==
    /\ dl.pc \in {"request", "stream"} => Len(dl.file) = dl.verifier.size /\ dl.pos = Len(dl.file)
    /\ PartialFile =>
          LET k == Len(dl.file0)
          IN /\ requests # <<>> => requests[1].source = 1 /\ requests[1].range = k
             /\ ResumedFromFirstSource =>
                   /\ events[1] = DownloadStarted(1, k)
                   /\ events[2] = DownloadStopped(1, pkg.expected.size - k, pkg.expected.size, Nil)
                   /\ Sum(dl.file0 \o Remaining(k)) = pkg.expected.hashes[SHA3_256] =>
                         /\ dl.pc = "done"
                         /\ dl.result = Nil
                         /\ dl.file = dl.file0 \o Remaining(k)
                         /\ Len(dl.file) = dl.verifier.size
                         /\ Len(events) = 3
                         /\ events[3] = FileVerification(1, pkg.expected)
                         /\ Len(requests) = 1

C11_Witness ==
    /\ PartialFile
    /\ ResumedFromFirstSource
    /\ dl.pc = "done"
    /\ dl.result = Nil
    /\ dl.file = dl.file0 \o Remaining(Len(dl.file0))
    /\ events[3].type = "FileVerification"
    /\ events[3].actual = pkg.expected

\* The step is a request with a range offset above zero that the server
\* answered with 200.
RangeIgnored ==
    /\ dl.pc = "request"
    /\ Len(requests') = Len(requests) + 1
    /\ Last(requests').range > 0
    /\ Last(requests').status = 200

\* C12: when the server answers 200 to a request sent with offset > 0, the
\* engine emits DownloadReset with reason http-server-does-not-support-resume
\* and then DownloadStarted with offset 0, the file is truncated and the
\* verifier reset to size 0, and the body is written from offset 0: file
\* plus unread body is the response body at every turn of the transfer,
\* and a transfer that ends without error reports the body's length as
\* both the bytes downloaded and the file size.
C12_RestartWhenRangeIgnored ==
    [][/\ RangeIgnored =>
             /\ events' = events \o <<DownloadReset(dl.src, HTTPServerDoesNotSupportResume),
                                      DownloadStarted(dl.src, 0)>>
             /\ dl'.pc = "stream"
             /\ dl'.file = <<>> /\ dl'.pos = 0
             /\ dl'.verifier.size = 0
             /\ dl'.verifier = NewFileVerifier(DOMAIN pkg.expected.hashes)
             /\ dl'.offset = 0
       /\ (dl'.pc = "stream" /\ Last(requests').status = 200) =>
             /\ dl'.file \o dl'.body = srv
             /\ dl'.verifier = VerifierWrite(NewFileVerifier(DOMAIN pkg.expected.hashes), dl'.file)
       /\ (dl.pc = "stream" /\ Last(requests).status = 200 /\ dl'.pc # "stream") =>
             LET stopped == events'[Len(events) + 1]
             IN /\ stopped.type = "DownloadStopped"
                /\ stopped.fileSize = stopped.downloaded
                /\ stopped.err = Nil => stopped.downloaded = Len(srv)
      ]_vars

\* A resumed request was answered 200 and the whole body transferred after
\* the reset.
C12_Witness ==
    /\ dl.pc = "done"
    /\ Len(dl.file0) > 0
    /\ Len(events) >= 3
    /\ events[1].type = "DownloadReset" /\ events[1].reason = HTTPServerDoesNotSupportResume
    /\ events[2] = DownloadStarted(1, 0)
    /\ events[3].type = "DownloadStopped" /\ events[3].err = Nil
    /\ dl.file = srv
    /\ dl.result = Nil

\* The positions in events of the verifications made after a completed pass
\* over the sources, and of those among them that failed.
PassVerifications ==
    {k \in 1..Len(events) : events[k].type = "FileVerification" /\ events[k].source # NoSource}

FailedPasses ==
    {k \in PassVerifications : ~EqualFileAttributes(pkg.expected, events[k].actual)}

VerificationFailed ==
    Err("the downloaded package did not pass its file verification checks", <<>>)

\* C24: at most two passes over the sources are completed, the second only
\* after the first failed its verification.  The first failed verification
\* is followed by DownloadReset with reason
\* downloaded-file-verification-failed for the same source; then the file is
\* empty, the verifier is as new, the second attempt starts with the first
\* source, and the next transfer starts at offset 0.  The second failed
\* verification ends the call with the verification error.
C24_AtMostTwoPasses ==
    /\ dl.pc # "off" => dl.attempt \in {0, 1}
    /\ Cardinality(PassVerifications) <= 2
    /\ Cardinality(PassVerifications) = 2 => Cardinality(FailedPasses) >= 1
    /\ Len(SelectSeq(events, LAMBDA e : e.type = "DownloadReset"
                                           /\ e.reason = DownloadedFileVerificationFailed)) <= 1
    /\ \A k \in FailedPasses :
          IF \A j \in PassVerifications : k <= j
          THEN /\ k < Len(events)
               /\ events[k + 1] = DownloadReset(events[k].source, DownloadedFileVerificationFailed)
               /\ dl.attempt = 1
               /\ (k + 1 = Len(events) /\ dl.pc = "request" /\ dl.src = 1) =>
                     /\ dl.errs = <<>>
                     /\ dl.file = <<>> /\ dl.pos = 0
                     /\ dl.verifier = NewFileVerifier(DOMAIN pkg.expected.hashes)
               /\ \A j \in (k + 2)..Len(events) :
                     (/\ events[j].type = "DownloadStarted"
                      /\ \A i \in (k + 2)..(j - 1) : events[i].type # "DownloadStarted")
                         => events[j].offset = 0
          ELSE /\ k = Len(events)
               /\ dl.pc = "done"
               /\ dl.result = VerificationFailed

\* Both passes were completed and failed their verification, the second
\* after a transfer from offset 0.
C24_Witness ==
    /\ Cardinality(FailedPasses) = 2
    /\ dl.pc = "done"
    /\ dl.result = VerificationFailed
    /\ Len(dl.file0) > 0
    /\ \E k \in FailedPasses : k + 2 <= Len(events) /\ events[k + 2] = DownloadStarted(1, 0)

(***************************************************************************)
(* Properties of the invoke-command action and the command engine.         *)
(***************************************************************************)
\* The command declares installs or uninstalls, and on the system as it was
\* when the changes were evaluated every application to install was
\* installed and every application to uninstall was not.
NothingToChange ==
    /\ cmd.pc # "off"
    /\ cmd.evaluated
    /\ Len(cmd.def.installs) + Len(cmd.def.uninstalls) > 0
    /\ \A n \in 1..Len(cmd.def.installs) : cmd.def.installs[n] \in cmd.before
    /\ \A n \in 1..Len(cmd.def.uninstalls) : cmd.def.uninstalls[n] \notin cmd.before

\* C13: when a command declares installs or uninstalls and nothing is left
\* to install or to uninstall, then with force unset at both levels the
\* engine emits CommandSkipped, starts no process and the action returns
\* success; with force set at either level no CommandSkipped is emitted.
C13_SkipUnlessForced ==
    NothingToChange =>
        IF ~cmd.force /\ ~cmd.actionForce
        THEN /\ cmd.pc = "done"
             /\ cmd.result = Nil
             /\ events = <<CommandSkipped(cmd.apps)>>
             /\ cmd.runs = 0
        ELSE OfTypes({"CommandSkipped"}) = <<>>

C13_Witness ==
    /\ NothingToChange
    /\ ~cmd.force /\ ~cmd.actionForce
    /\ cmd.def.installs # <<>> /\ cmd.def.uninstalls # <<>>
    /\ cmd.pc = "done"
    /\ events = <<CommandSkipped(cmd.apps)>>

\* C14 as stated: for the msi-uninstall and msi-uninstall-product-code
\* command types a child that exits with 1605 leaves no command error,
\* whatever path the interpretation of the exit code took.
C14_UnknownProductIsSuccess ==
    (/\ cmd.pc \in {"quiesce", "done"}
     /\ cmd.def.type \in {CommandTypeMSIUninstall, CommandTypeMSIUninstallProductCode}
     /\ cmd.child = [kind |-> "exited", code |-> UnknownProduct])
        => cmd.cmdErr = Nil

\* The child of the command exited with a code, and the command has stopped.
Exited == cmd.pc \in {"quiesce", "done"} /\ cmd.runs > 0 /\ cmd.child.kind = "exited"

\* The result that the CommandStopped event of the last run carries.
StoppedResult == Last(OfTypes({"CommandStopped"})).result

\* C25: for a child that exited with a code, an entry of the command's own
\* exit-code map decides alone: its ok flag is the result's, ok leaves no
\* error even for a code other than zero, not ok leaves the error of the
\* process, whatever the catalog of msiexec codes says.  Without an entry
\* and on the MSI types the catalog entry decides: ok leaves no error, not
\* ok leaves the exit code as the error.  Without either, a code other than
\* zero is an error and zero is none.  (On the msi-uninstall types the
\* command engine then drops the catalog's error for an unknown product.)
C25_ExitCodePrecedence ==
    Exited =>
        LET def == cmd.def
            code == cmd.child.code
            own == code \in DOMAIN def.exitCodes
            catalog == ~own /\ IsMSI(def.type) /\ code \in DOMAIN InfoMap
            process == IF code = 0 THEN Nil ELSE ExitError(code, TRUE)
            expected == IF own THEN (IF def.exitCodes[code] THEN Nil ELSE process)
                        ELSE IF catalog THEN (IF InfoMap[code] THEN Nil ELSE MsiExitCode(code))
                        ELSE process
        IN  /\ StoppedResult.exitCode = code
            /\ StoppedResult.found = (own \/ catalog)
            /\ own => StoppedResult.ok = def.exitCodes[code]
            /\ catalog => StoppedResult.ok = InfoMap[code]
            /\ cmd.cmdErr = AlreadyUninstalled(def.type, expected)
            /\ (own /\ def.exitCodes[code]) => cmd.cmdErr = Nil
            /\ (own /\ ~def.exitCodes[code] /\ code # 0) => cmd.cmdErr = ExitError(code, TRUE)

\* An msi-install command whose own map calls UnknownProduct ok, which the
\* catalog does not, ran a child that exited with it.
C25_Witness ==
    /\ Exited
    /\ cmd.def.type = CommandTypeMSIInstall
    /\ cmd.child.code = UnknownProduct
    /\ UnknownProduct \in DOMAIN cmd.def.exitCodes
    /\ cmd.def.exitCodes[UnknownProduct]
    /\ ~InfoMap[UnknownProduct]
    /\ cmd.cmdErr = Nil

\* An application that was to be installed is not installed, or one that
\* was to be uninstalled is installed.
Shortfall ==
    \/ \E n \in 1..Len(cmd.apps.toInstall) : cmd.apps.toInstall[n] \notin installed
    \/ \E n \in 1..Len(cmd.apps.toUninstall) : cmd.apps.toUninstall[n] \in installed

\* C26: once the command has run and the call has returned, a shortfall of
\* the application changes means an error was returned; a command error is
\* what was returned when there is one; without a command error and with
\* the applications summarized, a shortfall returns the error of the
\* summary.  The engine goes on to the next application of a product-code
\* command only without shortfall.
C26_ShortfallIsError ==
    /\ (cmd.pc = "done" /\ cmd.runs > 0) =>
          /\ Shortfall => cmd.result # Nil
          /\ cmd.cmdErr # Nil => cmd.result = cmd.cmdErr
          /\ (cmd.cmdErr = Nil /\ cmd.err = Nil /\ Shortfall) =>
                /\ cmd.result = SummaryErr(SummarizeAppChanges(cmd.apps, installed))
                /\ cmd.result.kind \in
                      {"some applications were not installed and some were not uninstalled",
                       "the following applications were not installed properly",
                       "the following applications were not uninstalled properly"}
    /\ (cmd.pc = "prepare" /\ cmd.runs > 0) => ~Shortfall

\* The child exited with 0, the application to install is still missing and
\* the one to uninstall is gone: the summary's error was returned.
C26_Witness ==
    /\ cmd.pc = "done"
    /\ cmd.runs = 1
    /\ cmd.child = [kind |-> "exited", code |-> 0]
    /\ cmd.cmdErr = Nil
    /\ cmd.apps.toInstall = <<"A">>
    /\ cmd.apps.toUninstall = <<"B">>
    /\ installed = {}
    /\ cmd.result = Err("the following applications were not installed properly", <<>>)

(***************************************************************************)
(* Properties of the per-invocation engine state.                          *)
(***************************************************************************)
\* C15: when a deployment invocation has ended, the active-flow set is
\* empty, no cached verified staging directory, no cached extraction
\* directory and no lock entry of the lock manager is left open.
C15_InvocationReleasesState ==
    es.pc = "ended" =>
        /\ es.activeFlows = {}
        /\ es.extractedPackages = {}
        /\ es.locks = {}
        /\ es.open = {}

(***************************************************************************)
(* Properties of the resource resolver.                                    *)
(***************************************************************************)
\* The resources that are reached from those of S by following locations.
RECURSIVE ReachFrom(_, _)
ReachFrom(resources, S) ==
    LET T == S \cup {resources[x] : x \in S \cap DOMAIN resources}
    IN  IF T = S THEN S ELSE ReachFrom(resources, T)

\* The parent chain of id contains a cycle: some resource reached from id is
\* reached again from its own location.
HasCycle(resources, id) ==
    \E x \in ReachFrom(resources, {id}) \cap DOMAIN resources :
        x \in ReachFrom(resources, {resources[x]})

\* What the parent chain of id ends in: the first id on it that is not a
\* key of the resource map.
ChainEnd(resources, id) ==
    CHOOSE x \in ReachFrom(resources, {id}) : x \notin DOMAIN resources

\* C16: the resolver's loop makes at most one pass for each resource of the
\* map and one more; a call that has returned reports a cyclic reference
\* exactly when the parent chain of the requested resource contains a
\* cycle, and an acyclic chain that ends in a well-known root resolves to
\* that root.
C16_ResolutionTerminatesOnCycles ==
    /\ (ret # NoCall /\ args.fn \in {"ResolveDirectory", "ResolveKey"} /\ ret.pc = "loop") =>
          /\ ret.passes <= Cardinality(DOMAIN args.resources)
          /\ ENABLED ResolveLoop
    /\ (ret # NoCall /\ args.fn \in {"ResolveDirectory", "ResolveKey"} /\ ret.pc = "done") =>
          /\ ret.err = Err("cyclic reference", <<>>)
                <=> HasCycle(args.resources, args.id)
          /\ (/\ ~HasCycle(args.resources, args.id)
              /\ ChainEnd(args.resources, args.id) \in KnownRoots(args.fn))
                => /\ ret.err = Nil
                   /\ ret.root = ChainEnd(args.resources, args.id)

\* A call on a resource whose chain runs into a cycle of two other
\* resources has returned the cyclic-reference error.
C16_Witness ==
    /\ args.fn = "ResolveKey"
    /\ ret # NoCall
    /\ ret.pc = "done"
    /\ args.id = "a"
    /\ args.resources = [x \in {"a", "b", "c"} |->
                             IF x = "a" THEN "b" ELSE IF x = "b" THEN "c" ELSE "b"]
    /\ ret.err = Err("cyclic reference", <<>>)

(***************************************************************************)
(* Properties of the version comparison.                                   *)
(***************************************************************************)
Compared == ret # NoCall /\ args.fn = "CompareVersions"

\* C17: CompareVersions(a, b) = -CompareVersions(b, a) for all versions a
\* and b, and a version compares equal to itself; this includes the
\* versions that differ only by a leading v or V or by a trailing dot.
C17_CompareAntisymmetric ==
    Compared =>
        /\ \A i, j \in DOMAIN args.versions : ret.cmp[i, j] = -ret.cmp[j, i]
        /\ \A i \in DOMAIN args.versions : ret.cmp[i, i] = 0

\* "V1." and "1", which differ by the leading V and the trailing dot, were
\* compared both ways.
C17_Witness ==
    /\ Compared
    /\ args.versions = <<<<"V", "1", ".">>, <<"1">>>>
    /\ ret.cmp[1, 2] = 0
    /\ ret.cmp[2, 1] = 0

\* C18: the version comparison is transitive: of three versions a, b and c
\* with a < b and b < c, a < c.
C18_CompareTransitive ==
    Compared =>
        \A i, j, k \in DOMAIN args.versions :
            (ret.cmp[i, j] = -1 /\ ret.cmp[j, k] = -1) => ret.cmp[i, k] = -1

(***************************************************************************)
(* Properties of the MergeReader.                                          *)
(***************************************************************************)
\* The bytes of input i among those of s, in the order of s.
OfInput(s, i) == SelectSeq(s, LAMBDA b : b[1] = i)

\* The bytes that were read from the inputs and not yet returned by Read:
\* the unread ones and the chunks that wait to be sent.
Unreturned(i) ==
    OfInput(SubSeq(mr.unread.data, mr.unread.offset + 1, mr.unread.size), i)
        \o (IF mr.prod[i].pc = "send" THEN mr.prod[i].data ELSE <<>>)

\* C19: whatever the order of the producers' steps and the sizes of the
\* consumer's buffers, the bytes Read has returned hold the bytes of each
\* input once and in their order: with the bytes carried over and those
\* waiting to be sent they are the bytes read from the input so far.  Read
\* returns io.EOF only when every producer is done, nothing carried over
\* is left, and an input that has not failed was returned whole.
C19_MergePreservesInputs ==
    mr.pc = "on" =>
        /\ \A i \in Inputs :
              OfInput(mr.out, i) \o Unreturned(i) = InputBytes(i, 1, mr.pos[i])
        /\ Len(mr.out) = Len(OfInput(mr.out, 1)) + Len(OfInput(mr.out, 2))
        /\ mr.eof =>
              /\ \A i \in Inputs : mr.prod[i].pc = "done"
              /\ mr.unread.offset >= mr.unread.size
              /\ \A i \in Inputs :
                    ~mr.fails[i] => OfInput(mr.out, i) = InputBytes(i, 1, mr.len[i])

\* Read has returned io.EOF after two inputs of two bytes were returned
\* interleaved, a chunk of the second being carried over on the way.
C19_Witness ==
    /\ mr.pc = "on"
    /\ mr.eof
    /\ mr.carried > 0
    /\ mr.out = <<<<1, 1>>, <<2, 1>>, <<2, 2>>, <<1, 2>>>>

(***************************************************************************)
(* Properties of the event handlers.                                       *)
(***************************************************************************)
\* The members of the MultiHandler that fail, in their order.
FailingMembers ==
    SelectSeq([n \in 1..Len(args.handlers) |-> n],
              LAMBDA n : args.handlers[n].outcome # "nil")

\* e is an error of the member at n: it names the member's handler and
\* wraps the member's own error.
ErrorOfMember(e, n) ==
    /\ e.kind = "HandlerError"
    /\ e.handler = args.handlers[n].name
    /\ e.of = <<Err("write failed", <<>>)>>

\* C20: when MultiHandler.Handle has returned, the record was handed to
\* every member once, in order, whether or not earlier members failed; the
\* returned error is nil exactly when no member failed; else it is one
\* error that holds, for each failing member, an error naming that member's
\* handler: that error itself when one member failed, a MultiHandlerError
\* of the multi-handler over them when several did.
C20_MultiHandlerDeliversToAll ==
    (ret # NoCall /\ args.fn = "MultiHandler.Handle" /\ ret.pc = "done") =>
        /\ ret.delivered = [n \in 1..Len(args.handlers) |-> n]
        /\ ret.err = Nil <=> FailingMembers = <<>>
        /\ Len(FailingMembers) = 1 => ErrorOfMember(ret.err, FailingMembers[1])
        /\ Len(FailingMembers) > 1 =>
              /\ ret.err.kind = "MultiHandlerError"
              /\ ret.err.handler = "multi-handler"
              /\ Len(ret.err.of) = Len(FailingMembers)
              /\ \A k \in 1..Len(FailingMembers) :
                    ErrorOfMember(ret.err.of[k], FailingMembers[k])

\* Handle has returned for three members of which the first and the last
\* failed.
C20_Witness ==
    /\ ret # NoCall
    /\ args.fn = "MultiHandler.Handle"
    /\ ret.pc = "done"
    /\ Len(args.handlers) = 3
    /\ args.handlers[1].outcome = "error"
    /\ args.handlers[2].outcome = "nil"
    /\ args.handlers[3].outcome = "handler-error"
    /\ Len(ret.delivered) = 3
    /\ ret.err.kind = "MultiHandlerError"

(***************************************************************************)
(* Properties of the recorder.                                             *)
(***************************************************************************)
\* The position of the first entry of s with an error; zero without one.
FirstFailure(s) ==
    IF \E k \in 1..Len(s) : s[k].err # Nil
    THEN CHOOSE k \in 1..Len(s) : s[k].err # Nil /\ \A j \in 1..(k - 1) : s[j].err = Nil
    ELSE 0

\* C21: whether or not the handler fails, a flow that was not cancelled
\* runs the actions its document and their outcomes prescribe and returns
\* the error they prescribe: all actions in order with on-error continue or
\* without failure, else those up to the first that failed; the join of the
\* errors of the failed actions.  For every event, Record hands the handler
\* the event and, when that fails, the wrapped error as one more event, and
\* returns the wrapped error; it returns nil otherwise.
C21_HandlerFailuresIgnored ==
    /\ (/\ lastReturn.inv # 0
        /\ ~cancelled
        /\ Len(Sel(lastReturn.inv, {"FlowStarted"})) = 1) =>
           LET actions == dep.flows[lastReturn.flow].actions
               started == Sel(lastReturn.inv, {"ActionStarted"})
               stopped == Sel(lastReturn.inv, {"ActionStopped"})
               failures == SelectSeq(stopped, LAMBDA e : e.err # Nil)
               run == IF EffectiveOnError(lastReturn.flow) = "continue" \/ Len(failures) = 0
                      THEN Len(actions)
                      ELSE FirstFailure(stopped)
           IN  /\ Len(started) = run
               /\ Len(stopped) = run
               /\ \A k \in 1..Len(started) :
                     started[k].index = k - 1 /\ started[k].atype = actions[k].type
               /\ lastReturn.err = JoinErrs([k \in 1..Len(failures) |-> failures[k].err])
    /\ phase = "done" /\ ~cancelled /\ lastReturn.inv # 0 => result = lastReturn.err
    /\ \A n \in 1..Len(Recorded) :
          LET event == Recorded[n]
              r == Record(event)
          IN  IF rec.handler # "" /\ event.type \in rec.fails
              THEN /\ r.err = HandlerError(rec.handler, Err("handler failed", <<>>))
                   /\ r.handled = <<event, HandlerErrorEvent(r.err)>>
              ELSE /\ r.err = Nil
                   /\ r.handled = IF rec.handler = "" THEN <<>> ELSE <<event>>

\* The handler failed on every event and on its own errors, and the flow ran
\* its two actions, of which the first failed, and returned.
C21_Witness ==
    /\ rec.handler # ""
    /\ "ActionStopped" \in rec.fails
    /\ HandlerErrorComponent \in rec.fails
    /\ phase = "done"
    /\ ~cancelled
    /\ lastReturn.inv = 1
    /\ LET stopped == Sel(1, {"ActionStopped"})
       IN  /\ Len(stopped) = 2
           /\ stopped[1].err # Nil
           /\ stopped[2].err = Nil
    /\ result # Nil

(***************************************************************************)
(* Properties of the validation of the deployment.                         *)
(***************************************************************************)
\* The document has an id, all its conditions validate and all its packages
\* validate.
Acceptable(d) ==
    /\ d.id # ""
    /\ \A id \in DOMAIN d.conditions : ValidateCondition(d, id) = Nil
    /\ ResourcesValidate(d) = {Nil}

\* No step of a flow has run in the invocation that ended with err: no flow
\* was entered, no lock was created, no package was prepared.
RejectedWith(errs) ==
    /\ es.pc = "ended"
    /\ es.err \in errs
    /\ es.frames = <<>>
    /\ es.activeFlows = {}
    /\ es.locks = {}
    /\ es.open = {}

\* DeploymentEngine.Invoke returns the error of Deployment.Validate, before
\* any step of a flow, for a document without id or with a condition that
\* does not validate.
InvokeValidatesFirst ==
    (es.pc # "idle" /\ DeploymentValidate(es.deployment) # {Nil}) =>
        RejectedWith(DeploymentValidate(es.deployment))

\* C22: once Invoke has acted on a document that has no id, or a condition
\* that does not validate, or a package that does not validate, the
\* invocation has ended with a validation error and no step of a flow has
\* run.
C22_InvalidDeploymentsRejected ==
    (es.pc # "idle" /\ ~Acceptable(es.deployment)) =>
        RejectedWith((DeploymentValidate(es.deployment) \cup ResourcesValidate(es.deployment))
                        \ {Nil})

(***************************************************************************)
(* Properties of the preconditions of a flow.                              *)
(***************************************************************************)
\* What an invocation records or does once it is past its preconditions.
PastPreconditions ==
    {"trylock", "unlock", "FlowLockNotAcquired", "FlowStarted", "FlowStopped",
     "ActionStarted", "ActionStopped"}

\* The evaluation of a precondition of invocation inv failed, or one of its
\* preconditions evaluated to false.
PreconditionFailed(inv) ==
    \E k \in 1..Len(events) :
        /\ events[k].inv = inv
        /\ events[k].type = "FlowCondition"
        /\ \/ events[k].err # Nil
           \/ events[k].info # <<>> /\ Len(events[k].info[2]) > 0

\* C23: an invocation with a precondition that is false or whose evaluation
\* fails returns an error; it has tried no lock, was never in the active
\* flows and has started no action.  While the preconditions are evaluated
\* the flow is not in the active flows and holds no lock.
C23_FailedPreconditionStopsFlow ==
    /\ \A n \in 1..Len(stack) :
          stack[n].pc = "preconditions" =>
              /\ stack[n].flow \notin activeFlows
              /\ ~stack[n].locked
              /\ Len(Sel(stack[n].inv, PastPreconditions)) = 0
    /\ \A inv \in 1..(nextInv - 1) :
          PreconditionFailed(inv) =>
              /\ \A n \in 1..Len(stack) : stack[n].inv # inv
              /\ Len(Sel(inv, PastPreconditions)) = 0
    /\ (lastReturn.inv # 0 /\ PreconditionFailed(lastReturn.inv)) =>
          /\ lastReturn.err # Nil
          /\ ~lastReturn.locked
          /\ lastReturn.after = lastReturn.before

\* The second of two preconditions of "Y" evaluated to false after the
\* first evaluated to true, while "X" held its lock and ran its first action.
C23_Witness ==
    /\ lastReturn.flow = "Y"
    /\ lastReturn.err = Err("preconditions failed", <<>>)
    /\ Len(Sel(lastReturn.inv, {"eval"})) = 2
    /\ \E k \in 1..Len(events) :
          /\ events[k].inv = lastReturn.inv
          /\ events[k].type = "FlowCondition"
          /\ Len(events[k].info[1]) = 1
          /\ Len(events[k].info[2]) = 1
    /\ Len(stack) = 1
    /\ stack[1].pc = "action"

(***************************************************************************)
(* Properties of the condition engine.                                     *)
(***************************************************************************)
\* The calls of evaluate that returned after their inner function ran, for
\* a compound condition.
CompoundReturns ==
    {n \in 1..Len(ce.log) :
        ce.log[n].early = "" /\ Len(Children(ce.log[n].cond)) > 0}

\* C27: a compound that returned has evaluated a prefix of its children, in
\* their order; every child but the last evaluated returned without error,
\* false for any and true for all; the last evaluated child returned an
\* error, which is the compound's, or true for any, which is then true, or
\* false for all, which is then false, or it is the last child, and then
\* any is false and all is true.
C27_CompoundShortCircuits ==
    ce.pc # "off" =>
      \A n \in CompoundReturns :
        LET e     == ce.log[n]
            isAny == Len(e.cond.any) > 0
            list  == Children(e.cond)
            k     == Len(e.kids)
            last  == e.kids[k].out
        IN  /\ k >= 1 /\ k <= Len(list)
            /\ \A j \in 1..k : e.kids[j].cond = list[j]
            /\ \A j \in 1..(k - 1) :
                  e.kids[j].out.err = Nil /\ e.kids[j].out.result = ~isAny
            /\ IF last.err # Nil
               THEN e.inner = Outcome(FALSE, EvalError(e.id, IF isAny THEN "any" ELSE "all",
                                                       k - 1, last.err))
               ELSE IF last.result = isAny
               THEN e.inner = Outcome(isAny, Nil)
               ELSE k = Len(list) /\ e.inner = Outcome(~isAny, Nil)
            /\ ~e.cond.negated => e.out = e.inner

\* The any "c1", of two children, returned true after its first child and
\* did not evaluate its second.
C27_Witness ==
    /\ ce.pc = "done"
    /\ ce.ret = Outcome(TRUE, Nil)
    /\ Len(ce.conditions["c1"].any) = 2
    /\ \E n \in CompoundReturns :
          /\ ce.log[n].id = "c1"
          /\ Len(ce.log[n].kids) = 1
          /\ ce.log[n].kids[1].out = Outcome(TRUE, Nil)

\* C28: a negated condition whose inner evaluation failed returns the error
\* and false; one whose inner evaluation succeeded returns the complement
\* of the inner result and no error.
C28_ErrorsNotNegated ==
    ce.pc # "off" =>
      \A n \in 1..Len(ce.log) :
        LET e == ce.log[n]
        IN  (e.early = "" /\ e.cond.negated) =>
                IF e.inner.err # Nil
                THEN e.out.err = e.inner.err /\ e.out.result = FALSE
                ELSE e.out.err = Nil /\ e.out.result = ~e.inner.result

\* The calls of evaluate that returned for a condition of the given type on
\* a resource that is defined.
ResourceReturns(type, ids) ==
    {n \in 1..Len(ce.log) :
        /\ ce.log[n].early = ""
        /\ Len(Children(ce.log[n].cond)) = 0
        /\ ce.log[n].cond.type = type
        /\ ce.log[n].cond.subject \in ids}

\* C30: on a directory that is missing, directory-exists is false without
\* error.  On a file whose directory is missing or that is missing itself,
\* file-exists is false without error; where the directory can be opened,
\* file-exists is an error only for a path that is there and is no regular
\* file.
C30_NotFoundIsFalse ==
    ce.pc # "off" =>
      /\ \A n \in ResourceReturns(ConditionDirectoryExists, DirectoryIDs) :
            ce.world.dirs[ce.log[n].cond.subject] = "missing" =>
                ce.log[n].inner = Outcome(FALSE, Nil)
      /\ \A n \in ResourceReturns(ConditionFileExists, FileIDs) :
            LET file == ce.log[n].cond.subject
                dir  == ce.world.dirs[FileDir(file)]
            IN  /\ (dir = "missing" \/ ce.world.files[file] = "missing") =>
                      ce.log[n].inner = Outcome(FALSE, Nil)
                /\ dir = "present" =>
                      (ce.log[n].inner.err # Nil <=> ce.world.files[file] = "directory")

\* The named conditions that the calls on the stack are evaluating: those
\* of the frames that are past their entry.
Evaluating ==
    {n \in 1..Len(ce.stack) : ce.stack[n].id # "" /\ ce.stack[n].pc # "enter"}

\* No named condition is evaluated twice at a time.  A call for a named
\* condition that one of its callers is evaluating returned the error of a
\* recursive condition, and no other call did; a call for a named condition
\* that was evaluated before and is not being evaluated returned the value
\* it had then, without error.  The error of a recursive condition is the
\* end of the evaluation: Evaluate returns an error.
NoReentry ==
    ce.pc # "off" =>
        /\ \A m, n \in Evaluating : m # n => ce.stack[m].id # ce.stack[n].id
        /\ ce.seen = {ce.stack[n].id : n \in Evaluating}
        /\ \A n \in 1..Len(ce.log) :
              LET e == ce.log[n]
                  before == {m \in 1..(n - 1) :
                               /\ ce.log[m].id = e.id
                               /\ ce.log[m].early = ""
                               /\ ce.log[m].out.err = Nil}
              IN  /\ (e.id # "" /\ e.id \in e.active) =>
                        e.early = "recursive" /\ e.out = Outcome(FALSE, RecursiveError)
                  /\ e.early = "recursive" => e.id \in e.active
                  /\ (e.id # "" /\ e.id \notin e.active /\ before # {}) =>
                        /\ e.early = "cached"
                        /\ e.out.err = Nil
                        /\ \A m \in before : e.out.result = ce.log[m].out.result
        /\ (ce.pc = "done" /\ \E n \in 1..Len(ce.log) : ce.log[n].early = "recursive") =>
              ce.ret.err # Nil

\* C29: named reentry is an error and not a recursion, a reference to a
\* condition that was evaluated is none, and every evaluation ends.
C29_ReentryIsError == []NoReentry /\ <>(ce.pc = "done")

\* "c1" refers to "c2", whose compound refers to "c1" in its second child:
\* the evaluation ended with the error of that call.
C29_Witness ==
    /\ ce.pc = "done"
    /\ ce.conditions["c1"] = Leaf(ConditionSubcondition, "c2", FALSE)
    /\ Len(ce.conditions["c2"].any) = 2
    /\ \E n \in 1..Len(ce.log) :
          /\ ce.log[n].id = "c1"
          /\ ce.log[n].active = {"c1", "c2"}
          /\ ce.log[n].early = "recursive"
    /\ ce.ret.err # Nil

\* A condition referred to a second time after its evaluation has ended.
ReferencedAgain ==
    /\ ce.pc = "done"
    /\ \E n \in 1..Len(ce.log) : ce.log[n].early = "cached" /\ ce.log[n].id = "c2"
    /\ ce.ret.err = Nil

(***************************************************************************)
(* Properties of the active-flow set.                                      *)
(***************************************************************************)
\* The positions of flowEngine.Invoke inside the action loop, between the
\* activeFlows.Add of flow.go:284 and the return.
InActionLoop == {"loop", "invoke", "action", "stopped"}

\* The flows whose action loop is executing on the call stack.
FlowsInLoop == {stack[n].flow : n \in {m \in 1..Len(stack) : stack[m].pc \in InActionLoop}}

\* The invocation of frame is past its preconditions and holds its locks.
EnteredProperly(frame) ==
    /\ frame.failed = <<>>
    /\ frame.passed = Def(frame).preconditions
    /\ Len(Def(frame).locks) > 0 =>
          /\ frame.locked
          /\ \A n \in 1..Len(Def(frame).locks) : lk[Def(frame).locks[n]].counter > 0

\* C36: at every point of an invocation the active-flow set is the set of
\* the flows whose action loop is executing on the call stack, and each of
\* those invocations has passed all its preconditions and holds its locks;
\* the set is empty once the invocation has returned.
C36_ActiveFlowsAreRunningFlows ==
    /\ activeFlows = FlowsInLoop
    /\ \A n \in 1..Len(stack) : stack[n].pc \in InActionLoop => EnteredProperly(stack[n])
    /\ phase = "done" => activeFlows = {}

\* The invocation has returned after one flow was started twice in a row by
\* its parent: it failed the first time and stopped without error the
\* second time.
C36_Witness ==
    /\ phase = "done"
    /\ \E a, b, c, d \in 1..Len(events) :
          /\ a < b /\ b < c /\ c < d
          /\ events[a].type = "FlowStarted" /\ events[b].type = "FlowStopped"
          /\ events[c].type = "FlowStarted" /\ events[d].type = "FlowStopped"
          /\ events[a].flow = "Y" /\ events[c].flow = "Y"
          /\ events[a].inv = events[b].inv /\ events[c].inv = events[d].inv
          /\ events[a].inv # events[c].inv
          /\ events[b].err # Nil /\ events[d].err = Nil

(***************************************************************************)
(* Properties of the FlowStarted and FlowStopped records.                  *)
(***************************************************************************)
\* The positions in events of the records of the given types of invocation
\* inv.
Positions(inv, types) ==
    {k \in 1..Len(events) : events[k].inv = inv /\ events[k].type \in types}

\* Invocation inv failed before it started: it was rejected as already
\* running, a precondition failed, or a lock was not acquired.
FailedBeforeStart(inv) ==
    \/ Positions(inv, {"FlowAlreadyRunning", "FlowLockNotAcquired"}) # {}
    \/ PreconditionFailed(inv)

\* The record at position a and, if there is one, the record at position b
\* lie between the ActionStarted of a start-flow action of another
\* invocation and the ActionStopped of that action, if it has stopped;
\* the parent recorded nothing in between.
InsideStartFlow(a, b, stoppedToo) ==
    \E p \in 1..(a - 1) :
        /\ events[p].type = "ActionStarted"
        /\ events[p].atype = ActionStartFlow
        /\ events[p].inv # events[a].inv
        /\ \A k \in (p + 1)..b : events[k].inv # events[p].inv
        /\ IF stoppedToo
           THEN /\ b < Len(events)
                /\ \E q \in (b + 1)..Len(events) :
                      /\ events[q].type = "ActionStopped"
                      /\ events[q].inv = events[p].inv
                      /\ events[q].index = events[p].index
                      /\ \A k \in (p + 1)..(q - 1) : events[k].inv # events[p].inv
           ELSE \A k \in (b + 1)..Len(events) : events[k].inv # events[p].inv

\* C37: every invocation records at most one FlowStarted; an invocation
\* that recorded FlowStarted and has not returned is in its action loop,
\* and one that has returned recorded exactly one FlowStopped after it; the
\* two records of a nested invocation lie between the ActionStarted and the
\* ActionStopped of its parent's start-flow action; an invocation that
\* failed before starting recorded neither.
C37_StartedStoppedPairs ==
    \A inv \in 1..(nextInv - 1) :
        LET started == Positions(inv, {"FlowStarted"})
            stopped == Positions(inv, {"FlowStopped"})
            inLoop == \E n \in 1..Len(stack) :
                          stack[n].inv = inv /\ stack[n].pc \in InActionLoop
        IN /\ Cardinality(started) <= 1
           /\ Cardinality(stopped) <= Cardinality(started)
           /\ inLoop <=> (started # {} /\ stopped = {})
           /\ \A a \in started :
                 /\ \A b \in stopped : a < b
                 /\ inv # 1 =>
                       IF stopped = {}
                       THEN InsideStartFlow(a, a, FALSE)
                       ELSE \A b \in stopped : InsideStartFlow(a, b, TRUE)
           /\ FailedBeforeStart(inv) => started = {} /\ stopped = {}

\* The invocation has returned after a nested flow stopped on a failed
\* action, then stopped on cancellation in its second invocation, and the
\* flow that started it stopped as well.
C37_Witness ==
    /\ phase = "done"
    /\ \E b, d, e \in 1..Len(events) :
          /\ b < d /\ d < e
          /\ events[b].type = "FlowStopped" /\ events[d].type = "FlowStopped"
          /\ events[e].type = "FlowStopped"
          /\ events[b].inv = 2 /\ events[d].inv = 3 /\ events[e].inv = 1
          /\ events[b].err = JoinErrs(<<Err("action failed", <<>>)>>)
          /\ events[d].err = JoinErrs(<<CtxErr>>)

\* A nested invocation that did not get its locks has returned, and so has
\* the invocation that started it.
FailedBeforeStartReached ==
    /\ phase = "done"
    /\ \E inv \in 2..(nextInv - 1) : Positions(inv, {"FlowLockNotAcquired"}) # {}

(***************************************************************************)
(* Properties of the pass over the sources of a download.                  *)
(***************************************************************************)
\* The requests of a pass go to the sources in declaration order: each
\* request goes to the source of the request before it, to the next one, or
\* to the first source when a new pass starts.
SourcesInDeclarationOrder ==
    \A n \in 1..Len(requests) :
        /\ requests[n].source \in 1..pkg.sources
        /\ n = 1 => requests[n].source = 1
        /\ n > 1 => requests[n].source \in {1, requests[n - 1].source + 1}

\* The call has returned after a pass in which the sources before source s
\* failed by an unexpected status code or a failed request, source s then
\* downloaded to the end, and the content downloaded has the expected
\* attributes.
LaterSourceCompleted(s) ==
    /\ dl.pc = "done"
    /\ ~cancelled
    /\ s > 1
    /\ Len(requests) >= s
    /\ \A j \in 1..s : requests[Len(requests) - s + j].source = j
    /\ \A j \in 1..(s - 1) : requests[Len(requests) - s + j].status \notin {200, 206}
    /\ requests[Len(requests)].status \in {200, 206}
    /\ \E k \in 1..Len(events) :
          /\ events[k] \in {DownloadStopped(s, n, size, Nil) : n \in 0..(MaxSize + 1), size \in 0..(MaxSize + 1)}
          /\ \A j \in (k + 1)..Len(events) : events[j].type = "FileVerification"
    /\ EqualFileAttributes(pkg.expected, VerifierState(dl.verifier))

\* C39: when the earlier sources of a pass failed and a later source
\* downloaded completely, the pass is completed: the content is verified
\* (FileVerification names that source) and, its attributes matching, the
\* call succeeds.
C39_FailingSourceFailsOnlyItself ==
    \A s \in 1..MaxSources :
        LaterSourceCompleted(s) =>
            /\ dl.result = Nil
            /\ Last(events) = FileVerification(s, VerifierState(dl.verifier))

\* What the call does instead: the errors of the earlier sources, joined,
\* are its result, and the content is not verified.
LaterSourceCompletedFailsCall ==
    \A s \in 1..MaxSources :
        LaterSourceCompleted(s) =>
            /\ dl.result = JoinErrs(dl.errs)
            /\ Len(dl.errs) = s - 1
            /\ Last(events).type = "DownloadStopped"

(***************************************************************************)
(* Properties of the wait after a command.                                 *)
(***************************************************************************)
\* errors.Is(err, context.Canceled), for the errors of the command engine,
\* which wrap errors only.
RECURSIVE IsCancellation(_)
IsCancellation(err) ==
    \/ err = CtxErr
    \/ \E n \in 1..Len(err.of) : IsCancellation(err.of[n])

\* The context was cancelled during the wait that follows CommandStopped,
\* and the one call of commandEngine.invoke has returned.
CancelledInQuiescence ==
    /\ cmd.pc = "done"
    /\ cmd.cancelledAt = "quiesce"
    /\ cmd.runs = 1
    /\ cmd.queue = <<>>

\* C33: when the context is cancelled during the wait after the command,
\* the invocation of the command returns a cancellation error, also after a
\* child that exited with success.
C33_CancelledWaitReturnsCancellation ==
    CancelledInQuiescence => IsCancellation(cmd.result)

\* What the invocation returns instead: the error of the command, else the
\* error of the summary of the application changes, as without
\* cancellation; that is never a cancellation error.
CancelledWaitReturnsCommandError ==
    CancelledInQuiescence =>
        /\ cmd.result = (IF cmd.err # Nil THEN cmd.err ELSE SummaryErr(cmd.after))
        /\ ~IsCancellation(cmd.result)

\* The wait was cancelled after a child that exited with 0 and changed the
\* applications as expected: the invocation returned nil.
CancelledWaitReturnsNil ==
    /\ CancelledInQuiescence
    /\ cmd.child = [kind |-> "exited", code |-> 0]
    /\ cmd.result = Nil

(***************************************************************************)
(* Properties of the records of a command that succeeded.                  *)
(***************************************************************************)
\* How many records of the given type the command engine made.
CommandRecords(type) == Cardinality({k \in 1..Len(events) : events[k].type = type})

\* The invoke-command action returned nil and recorded no CommandSkipped.
SucceededUnskipped ==
    /\ cmd.pc = "done"
    /\ cmd.result = Nil
    /\ CommandRecords("CommandSkipped") = 0

\* A command on product codes with no application left to uninstall.
NothingToUninstall ==
    /\ cmd.def.type = CommandTypeMSIUninstallProductCode
    /\ cmd.apps.toUninstall = <<>>

\* C40 as stated: an invoke-command action that returned success without
\* CommandSkipped recorded at least one CommandStarted and as many
\* CommandStopped, whatever the command.
C40_SuccessHasStartedStopped ==
    SucceededUnskipped =>
        /\ CommandRecords("CommandStarted") >= 1
        /\ CommandRecords("CommandStopped") = CommandRecords("CommandStarted")

\* C40, amended: an invoke-command action that returned success without
\* CommandSkipped recorded at least one CommandStarted and as many
\* CommandStopped, except for a command on product codes with no
\* application to uninstall, which recorded nothing at all.
C40_SuccessHasStartedStoppedUnlessNoApp ==
    SucceededUnskipped =>
        IF NothingToUninstall
        THEN events = <<>> /\ cmd.runs = 0
        ELSE /\ CommandRecords("CommandStarted") >= 1
             /\ CommandRecords("CommandStopped") = CommandRecords("CommandStarted")

\* A forced command on product codes whose one declared application is
\* already uninstalled returned success without any record.
C40_Witness ==
    /\ SucceededUnskipped
    /\ NothingToUninstall
    /\ cmd.force \/ cmd.actionForce
    /\ cmd.def.uninstalls = <<"B">>
    /\ cmd.apps.alreadyUninstalled = <<"B">>
    /\ events = <<>>

\* A command on product codes uninstalled its application and returned
\* success after one CommandStarted and one CommandStopped.
ProductCodeUninstalled ==
    /\ SucceededUnskipped
    /\ cmd.def.type = CommandTypeMSIUninstallProductCode
    /\ cmd.apps.toUninstall = <<"B">>
    /\ CommandRecords("CommandStarted") = 1 /\ CommandRecords("CommandStopped") = 1

(***************************************************************************)
(* Properties of the goroutines of the MergeReader.                        *)
(***************************************************************************)
\* Every input has returned io.EOF or an error to its producer.
InputsEnded == mr.pc = "on" /\ \A i \in Inputs : mr.prod[i].last

\* Every producer has returned and the channel is closed.
ProducersDone == mr.closed /\ \A i \in Inputs : mr.prod[i].pc = "done"

\* C38: with a consumer that stops calling Read at the first error Read
\* returns, once every input has ended every producer returns and the
\* channel is closed.
C38_ProducersTerminate == InputsEnded ~> ProducersDone

\* The same for a consumer that calls Read until io.EOF.
DrainedProducersTerminate == (InputsEnded /\ mr.consumer = "Read") ~> ProducersDone

\* The consumer has stopped after the error of one input while the
\* producer of the other input is at its send.
ProducerBlocked ==
    /\ mr.pc = "on"
    /\ mr.consumer = "io.Copy"
    /\ mr.lastErr = ReadFailed
    /\ InputsEnded
    /\ \E i \in Inputs : mr.prod[i].pc = "send"
    /\ ~mr.closed

(***************************************************************************)
(* Properties of the file engine.                                          *)
(***************************************************************************)
\* The action that made the record at position k of events.
ActionOf(k) == dep.flows[events[k].flow].actions[events[k].index + 1]

\* The record at k is the FileCopy or FileDelete of an action that found
\* something other than a regular file at its destination.
FoundNotRegular(k) ==
    /\ events[k].type \in {"FileCopy", "FileDelete"}
    /\ events[k].err \in {NotRegularDestination, NotRegularFile}

\* The record after k is the ActionStopped of the same action.
StoppedNext(k) ==
    /\ k < Len(events)
    /\ events[k + 1].type = "ActionStopped"
    /\ events[k + 1].inv = events[k].inv
    /\ events[k + 1].index = events[k].index

\* C31: a copy-file action whose destination exists and is not a regular
\* file, and a delete-file action whose path is not a regular file, return
\* an error: ActionStopped carries it, and in a flow that stops on errors
\* no later action starts.
C31_NotRegularFailsAction ==
    \A k \in 1..Len(events) :
        FoundNotRegular(k) =>
            /\ StoppedNext(k)
            /\ events[k + 1].err # Nil
            /\ EffectiveOnError(events[k].flow) # OnErrorContinue =>
                  \A j \in (k + 1)..Len(events) : events[j].type # "ActionStarted"

\* What the file engine does instead: the error is in the FileCopy or
\* FileDelete record only, and the action returns nil.
NotRegularIsRecordedOnly ==
    \A k \in 1..Len(events) :
        FoundNotRegular(k) => StoppedNext(k) /\ events[k + 1].err = Nil

\* In a flow that stops on errors, an action started after a copy-file
\* action had found its destination not to be a regular file.
StartedAfterNotRegular ==
    /\ dep.behavior = OnErrorStop
    /\ \E k, j \in 1..Len(events) :
          /\ k < j
          /\ events[k].type = "FileCopy"
          /\ FoundNotRegular(k)
          /\ events[j].type = "ActionStarted"

\* The calls of the file engine that the action at position k of events
\* made.
OpsOf(k) ==
    {n \in 1..Len(fe.ops) :
        fe.ops[n].inv = events[k].inv /\ fe.ops[n].index = events[k].index}

\* The record at k is the ActionStopped of a copy-file or delete-file action
\* whose destination resolves under a protected root.
StoppedProtected(k) ==
    /\ events[k].type = "ActionStopped"
    /\ events[k].atype \in {ActionCopyFile, ActionDeleteFile}
    /\ ResolveFile(ActionOf(k).destination).err = Nil
    /\ ActionOf(k).type = ActionCopyFile => ResolveFile(ActionOf(k).source).err = Nil
    /\ Protected(ResolveFile(ActionOf(k).destination).root)

\* C32: a copy-file or delete-file action whose destination resolves under
\* a protected root returns an error without calling the file system and
\* without a FileCopy or FileDelete record; no file under a protected root
\* is ever opened as a destination, created, written or removed, and each
\* stays as it was.
C32_ProtectedRootUntouched ==
    fe.pc = "on" =>
        /\ \A k \in 1..Len(events) :
              StoppedProtected(k) =>
                  /\ events[k].err # Nil
                  /\ events[k - 1].type = "ActionStarted"
                  /\ OpsOf(k) = {}
        /\ \A n \in 1..Len(fe.ops) :
              Protected(FileRoot(fe.ops[n].file)) => fe.ops[n].op = "Open"
        /\ \A file \in FileResourceIDs :
              Protected(FileRoot(file)) => fe.fs[file] = fe.fs0[file]

\* The invocation has returned after a delete-file action on a regular
\* file under the protected root had failed and a copy-file action had
\* read that file as its source.
C32_Witness ==
    /\ phase = "done"
    /\ fe.pc = "on"
    /\ fe.fs["p"].kind = "regular"
    /\ \E k \in 1..Len(events) : StoppedProtected(k) /\ events[k].atype = ActionDeleteFile
    /\ \E n \in 1..Len(fe.ops) : fe.ops[n] = [op |-> "Open", file |-> "p", inv |-> 1, index |-> 1]
    /\ fe.fs["t"] = FileState("present", "regular", 2)

(***************************************************************************)
(* Properties of the extraction.                                           *)
(***************************************************************************)
\* The positions in events of the ExtractedFile records, in order.
ExtractedAt ==
    SelectSeq([k \in 1..Len(events) |-> k], LAMBDA k : events[k].type = "ExtractedFile")

\* C34: the n-th ExtractedFile record is the one of the n-th entry of the
\* archive and was made under a context that was not cancelled; only the
\* last of them can carry an error; ExtractionStarted is the first record;
\* ExtractionStopped is recorded once, as the last record, when the
\* extraction returns, and carries the error of the failed entry, else the
\* error of the context that ended the loop, else nil after the last entry;
\* the extraction returns that error.
C34_ExtractionOrderAndFailFast ==
    xe.pc \notin {"off", "open"} /\ events # <<>> =>
        /\ events[1].type = "ExtractionStarted"
        /\ \A k \in 2..Len(events) : events[k].type # "ExtractionStarted"
        /\ Len(ExtractedAt) <= Len(xe.entries)
        /\ \A n \in 1..Len(ExtractedAt) :
              LET e == events[ExtractedAt[n]]
              IN /\ e.number = n - 1
                 /\ e.path = xe.entries[n].name
                 /\ e.ctx = Nil
                 /\ e.err # Nil => n = Len(ExtractedAt)
        /\ \A k \in 1..Len(events) :
              events[k].type = "ExtractionStopped" => k = Len(events) /\ xe.pc = "done"
        /\ xe.pc = "done" =>
              /\ Last(events).type = "ExtractionStopped"
              /\ Last(events).err = xe.result
              /\ \A n \in 1..Len(ExtractedAt) :
                    events[ExtractedAt[n]].err # Nil => xe.result = events[ExtractedAt[n]].err
              /\ (\A n \in 1..Len(ExtractedAt) : events[ExtractedAt[n]].err = Nil) =>
                    IF Len(ExtractedAt) = Len(xe.entries)
                    THEN xe.result = Nil
                    ELSE xe.result = CtxErr
              /\ Len(events) = Len(ExtractedAt) + 2
        /\ xe.pc \in {"entries", "write"} =>
              /\ Len(ExtractedAt) = xe.i - 1
              /\ \A n \in 1..Len(ExtractedAt) : events[ExtractedAt[n]].err = Nil

\* The extraction of three entries has returned the error of its second
\* entry: two ExtractedFile records, then ExtractionStopped with the error.
C34_Witness ==
    /\ xe.pc = "done"
    /\ Len(xe.entries) = 3
    /\ Len(ExtractedAt) = 2
    /\ events[3].err = Err("write failed", <<>>)
    /\ Last(events) = ExtractionStopped(StatsOf(xe.entries, 3), StatsOf(xe.entries, 1),
                                        Err("write failed", <<>>))
    /\ xe.result = Err("write failed", <<>>)

\* The extraction has ended on a cancelled context before its second entry.
ExtractionCancelled ==
    /\ xe.pc = "done"
    /\ Len(xe.entries) >= 2
    /\ Len(ExtractedAt) = 1
    /\ events[2].err = Nil
    /\ xe.result = CtxErr
    /\ Last(events).type = "ExtractionStopped"

(***************************************************************************)
(* Properties of the package engine's caches.                              *)
(***************************************************************************)
PreparationEvents ==
    {"DownloadReset", "DownloadStarted", "DownloadStopped", "FileVerification",
     "ExtractionStarted", "ExtractedFile", "ExtractionStopped"}

\* The cache a command of the given operation looks the package up in.
CacheOf(op) == IF op = "archive" THEN es.extractedPackages ELSE es.verifiedPackageFiles

\* The directory a command of the given operation keeps open in the cache.
CachedDir(op, p) == Handle(IF op = "archive" THEN "extraction" ELSE "staging", p)

\* C35: while a deployment is invoked, the commands prepare a package with
\* success at most once (an archive is extracted once, a standalone package
\* is verified once): the package is in the cache from then on, with its
\* directory open; a command that finds its package in the cache, in
\* whatever flow, records no download, verification or extraction event and
\* opens nothing before the command engine is reached; a command whose
\* preparation fails leaves the cache without the package, has closed every
\* handle it opened and does not reach the command engine.
C35_PreparedOncePerInvocation ==
    es.pc = "running" /\ es.traced =>
        /\ \A p \in PackageIDs :
              /\ Len(es.extractedBy[p]) <= 1
              /\ Len(es.verifiedBy[p]) <= 1
              /\ p \in es.extractedPackages <=> Len(es.extractedBy[p]) = 1
              /\ p \in es.verifiedPackageFiles <=> Len(es.verifiedBy[p]) = 1
              /\ p \in es.extractedPackages => Handle("extraction", p) \in es.open
              /\ p \in es.verifiedPackageFiles => Handle("staging", p) \in es.open
              /\ Handle("file", p) \notin es.open
        /\ es.last.op \in {"archive", "package"} =>
              LET c == es.last
              IN /\ c.cached =>
                      /\ c.emitted = {} /\ c.opened = {} /\ c.ran /\ c.err = Nil
                      /\ c.pkg \in CacheOf(c.op)
                 /\ c.err # Nil =>
                      /\ ~c.cached /\ ~c.ran
                      /\ c.closed = c.opened
                      /\ c.pkg \notin CacheOf(c.op)
                      /\ CachedDir(c.op, c.pkg) \notin es.open
                 /\ ~c.cached /\ c.err = Nil =>
                      /\ c.ran
                      /\ c.opened \ c.closed = {CachedDir(c.op, c.pkg)}
                      /\ c.pkg \in CacheOf(c.op)
                      /\ "FileVerification" \in c.emitted
                      /\ c.op = "archive" => "ExtractionStopped" \in c.emitted
                 /\ c.emitted \subseteq PreparationEvents

\* A command of one flow has extracted the archive P, and the latest
\* command, in another flow, found P in the cache.
C35_Witness ==
    /\ es.pc = "running" /\ es.traced
    /\ Len(es.extractedBy["P"]) = 1
    /\ es.last.op = "archive" /\ es.last.pkg = "P" /\ es.last.cached
    /\ es.last.flow # es.extractedBy["P"][1]
    /\ es.last.emitted = {}

\* The extraction of an archive failed after its download: nothing is
\* cached, the package file and the extraction directory are closed.
FailedExtractionCachesNothing ==
    /\ es.pc = "running" /\ es.traced
    /\ es.last.op = "archive" /\ es.last.err # Nil
    /\ "ExtractionStopped" \in es.last.emitted
    /\ es.last.closed = {Handle("file", es.last.pkg), Handle("extraction", es.last.pkg)}
    /\ es.last.pkg \notin es.extractedPackages

\* A standalone package was verified by a command of one flow and the
\* latest command, in another flow, found its directory in the cache.
VerifiedPackageReused ==
    /\ es.pc = "running" /\ es.traced
    /\ Len(es.verifiedBy["Q"]) = 1
    /\ es.last.op = "package" /\ es.last.pkg = "Q" /\ es.last.cached
    /\ es.last.flow # es.verifiedBy["Q"][1]

\* A prepare-package action verified a package that a command had verified
\* before: the action does not look at the cache.
PreparePackageVerifiesAgain ==
    /\ es.pc = "running" /\ es.traced
    /\ es.last.op = "prepare" /\ es.last.err = Nil
    /\ es.last.pkg \in es.verifiedPackageFiles
    /\ "FileVerification" \in es.last.emitted

(***************************************************************************)
(* States of the code that the model reaches.                              *)
(***************************************************************************)
\* The context was cancelled between CommandStarted and the start of the
\* child: CommandStopped carries the context's error and the invocation
\* returns it.
CancelledStartReturnsCancellation ==
    /\ cmd.pc = "done"
    /\ cmd.cancelledAt = "running"
    /\ cmd.child.kind = "context done"
    /\ cmd.result = CtxErr
    /\ Last(events).type = "CommandStopped"
    /\ Last(events).err = CtxErr

\* The locks of the requested flow are in the lock table before any flow is
\* active.
LocksBeforeActive ==
    /\ es.pc = "running"
    /\ es.locks # {}
    /\ es.activeFlows = {}

\* A copy from a source that is not a regular file created the destination
\* and left it empty.
NonRegularSourceLeavesEmptyDestination ==
    /\ fe.pc = "on"
    /\ fe.fs0["p"].kind = "other"
    /\ fe.fs0["t"] = FileState("present", "missing", 0)
    /\ fe.fs["t"] = FileState("present", "regular", 0)
    /\ \E n \in 1..Len(fe.ops) : fe.ops[n].op = "Create" /\ fe.ops[n].file = "t"
    /\ \E k \in 1..Len(events) :
          events[k].type = "FileCopy" /\ events[k].err = Err("read failed", <<>>)

\* The file of an entry could not be created while the context was
\* cancelled: the extraction returned that error, not the context's.
CreateFailedUnderCancelledContext ==
    /\ xe.pc = "done"
    /\ cancelled
    /\ xe.result = Err("failed to create file", <<>>)
    /\ Len(ExtractedAt) >= 1
    /\ events[ExtractedAt[Len(ExtractedAt)]].err = xe.result

\* The extraction of an archive ended on the context's error after records
\* of entries: the command returns it wrapped, nothing is cached.
CancelledExtractionCachesNothing ==
    /\ es.pc = "running" /\ es.traced
    /\ es.last.op = "archive"
    /\ es.last.err = Wrap("extraction failed", CtxErr)
    /\ "ExtractedFile" \in es.last.emitted
    /\ es.last.pkg \notin es.extractedPackages
    /\ es.last.closed = es.last.opened

====
